---- MODULE Spec2Model ----
(***************************************************************************)
(* A state-machine model of dtlog (src/dtlog.h, src/dtlog.cpp): the sinks *)
(* (file_sink, rotating_file_sink, console_sink), the rotation algorithm   *)
(* and the logger's dispatch to its sinks.                                 *)
(*                                                                         *)
(* A file's content is a sequence of bytes.  A byte is a pair <<c, k>>:   *)
(* the k-th byte of the message of call c (c = 0 for content that was on   *)
(* disk before the sink was constructed), so that bytes of different       *)
(* messages can be told apart.                                             *)
(***************************************************************************)
EXTENDS Integers, Sequences, FiniteSets, TLC

VARIABLES
    kind,       \* which sink class the object is: "file" or "rotating"
    sink,       \* the sink object and the disk it writes to (a record)
    calls,      \* number of log calls made so far
    last,       \* what the most recent operation was and the state before it
    flush_arg,  \* the argument of the most recent flush_on call, if there was one
    m_mutex,    \* isink::m_mutex: the thread that holds it, 0 when free
    pc,         \* where each thread is inside sink->log
    idx,        \* the number of the message each thread logs next
    put,        \* how many bytes of its message a thread has put into the stream
    out,        \* stdout: the bytes written to it and those flushed to the terminal
    err_out,    \* stderr, likewise
    log_name,   \* logger::log_name
    log_pattern,\* logger::log_pattern
    m_sinks,    \* logger::m_sinks: the sinks in registration order
    objs,       \* the state of each sink object the logger can hold
    added,      \* every sink registered, by the constructor or add_sink, in order
    last_log,   \* the most recent logger operation and, for log, what it invoked
    fmtr,       \* a call of formatter::format: its arguments and, once made, its result
    rnd,        \* a call of logger::pattern (dtlog.h): its inputs and, once made, its result
    ho,         \* a call of logger::pattern (dtlog_ho.h), step by step
    hist,       \* the messages logged to a rotating sink since it was constructed
    loggers,    \* for each thread, the sink list of the logger it logs through
    mtx,        \* for each shared sink, the thread that holds its mutex, 0 when free
    thr,        \* for each thread, where it is inside logger::log
    acc         \* the most recent call of isink::flush_on from outside log

seq_vars == <<calls, last, flush_arg>>
conc_vars == <<m_mutex, pc, idx, put, out>>
late_vars == <<rnd, ho, hist, loggers, mtx, thr, acc>>
logger_vars == <<err_out, log_name, log_pattern, m_sinks, objs, added, last_log>>
vars == <<kind, sink, calls, last, flush_arg, m_mutex, pc, idx, put, out,
          err_out, log_name, log_pattern, m_sinks, objs, added, last_log, fmtr,
          rnd, ho, hist, loggers, mtx, thr, acc>>

----------------------------------------------------------------------------
(* Bounds of the model *)

\* size_t is modelled SizeBits wide; arithmetic on it is modulo 2^SizeBits
SizeBits == 3
\* longest message passed to log
MaxMsgLen == 2
\* largest max_size / max_files given to the constructor
MaxMaxSize == 2
MaxMaxFiles == 2
\* longest content of the log file found on disk by the constructor
MaxInitLen == 1
\* number of log calls made on one sink
MaxCalls == 3

\* longest sink list of a logger
MaxSinks == 2
\* threads that log to one sink, and messages each of them logs
NThreads == 2
MsgsPerThread == 2

SizeMod == 2 ^ SizeBits

----------------------------------------------------------------------------
(* enum class log_level : uint8_t *)

none == 0
trace == 1
info == 2
debug == 3
warning == 4
error == 5
critical == 6

log_level == {none, trace, info, debug, warning, error, critical}

----------------------------------------------------------------------------
(* isink *)

\* (faulty variant: the threshold itself does not flush)
should_flush_above(level, m_flush_level) == level > m_flush_level

\* bool should_flush(log_level level) const { return level >= m_flush_level; }
should_flush(level, m_flush_level) == level >= m_flush_level

\* void flush_on(log_level level) { m_flush_level = level; }
flush_on(s, level) == [s EXCEPT !.m_flush_level = level]

----------------------------------------------------------------------------
(* The file names of a rotating sink *)

m_base_filename == "app.log"
stem == "app"
ext == ".log"

\* parent / (stem + "." + std::to_string(i) + ext), for every size_t i
backup_paths == [i \in 0..(SizeMod - 1) |-> stem \o "." \o ToString(i) \o ext]

backup_path(i) == backup_paths[i]

exists(disk, p) == p \in DOMAIN disk

\* fs::remove
remove(disk, p) == [q \in DOMAIN disk \ {p} |-> disk[q]]

\* fs::rename: `to` is replaced if it exists
rename(disk, from, to) ==
    [q \in (DOMAIN disk \ {from}) \cup {to} |-> IF q = to THEN disk[from] ELSE disk[q]]

----------------------------------------------------------------------------
(* std::ofstream m_file: an open flag and the bytes buffered, not yet on disk *)

\* m_file.flush()
flush(s) ==
    IF s.m_file_open
    THEN [s EXCEPT !.disk = [s.disk EXCEPT ![m_base_filename] = @ \o s.m_file_buf],
                   !.m_file_buf = <<>>,
                   !.n_flush = @ + 1]
    ELSE s

\* m_file.close(): writes the buffer out and closes
close(s) ==
    IF s.m_file_open
    THEN [s EXCEPT !.disk = [s.disk EXCEPT ![m_base_filename] = @ \o s.m_file_buf],
                   !.m_file_buf = <<>>,
                   !.m_file_open = FALSE]
    ELSE s

\* m_file << msg: nothing is written through a stream that is not open
write(s, msg) ==
    IF s.m_file_open THEN [s EXCEPT !.m_file_buf = @ \o msg] ELSE s

\* The content of every file as a reader of the stream sees it once written out
Files(s) ==
    [p \in DOMAIN s.disk |->
        IF s.m_file_open /\ p = m_base_filename THEN s.disk[p] \o s.m_file_buf
        ELSE s.disk[p]]

----------------------------------------------------------------------------
(* rotating_file_sink *)

\* (faulty variant: the size counter starts at 0 whatever the file holds)
open_file_from_zero(s, fault) ==
    IF fault = "open"
    THEN [s EXCEPT !.threw = TRUE]
    ELSE LET d == IF exists(s.disk, m_base_filename) THEN s.disk
                  ELSE [q \in DOMAIN s.disk \cup {m_base_filename} |->
                            IF q = m_base_filename THEN <<>> ELSE s.disk[q]]
         IN [s EXCEPT !.disk = d,
                      !.m_file_open = TRUE,
                      !.m_file_buf = <<>>,
                      !.m_current_size = 0]

\* open_file(): open in append mode (creating the file), throw if that fails,
\* m_current_size = tellp() at the end of the file
open_file(s, fault) ==
    IF fault = "open"
    THEN [s EXCEPT !.threw = TRUE]
    ELSE LET d == IF exists(s.disk, m_base_filename) THEN s.disk
                  ELSE [q \in DOMAIN s.disk \cup {m_base_filename} |->
                            IF q = m_base_filename THEN <<>> ELSE s.disk[q]]
         IN [s EXCEPT !.disk = d,
                      !.m_file_open = TRUE,
                      !.m_file_buf = <<>>,
                      !.m_current_size = Len(d[m_base_filename]) % SizeMod]

\* for (size_t i = m_max_files - 1; i >= 1; --i)
\*     if (fs::exists(old_name)) fs::rename(old_name, new_name);
RECURSIVE shift_loop(_, _, _)
shift_loop(s, i, fault) ==
    IF s.threw \/ ~(i >= 1) THEN s
    ELSE LET old_name == backup_path(i)
             new_name == backup_path((i + 1) % SizeMod)
             s1 == IF exists(s.disk, old_name)
                   THEN IF fault = "shift" THEN [s EXCEPT !.threw = TRUE]
                        ELSE [s EXCEPT !.disk = rename(s.disk, old_name, new_name)]
                   ELSE s
         IN shift_loop(s1, (i - 1) % SizeMod, fault)

\* (faulty variant: the shift starts one slot too low)
shift_start_low(m_max_files) == (m_max_files - 2) % SizeMod

\* the first value of the loop counter
shift_start(m_max_files) == (m_max_files - 1) % SizeMod

rotate(s, fault) ==
    LET s0 == [close(s) EXCEPT !.n_rotate = @ + 1]
        oldest_file == backup_path(s.m_max_files)
        s1 == IF exists(s0.disk, oldest_file)
              THEN IF fault = "remove" THEN [s0 EXCEPT !.threw = TRUE]
                   ELSE [s0 EXCEPT !.disk = remove(s0.disk, oldest_file)]
              ELSE s0
        s2 == shift_loop(s1, shift_start(s.m_max_files), fault)
        first_backup == backup_path(1)
        s3 == IF s2.threw THEN s2
              ELSE IF exists(s2.disk, m_base_filename)
                   THEN IF fault = "rename" THEN [s2 EXCEPT !.threw = TRUE]
                        ELSE [s2 EXCEPT !.disk = rename(s2.disk, m_base_filename, first_backup)]
                   ELSE s2
    IN IF s3.threw THEN s3 ELSE open_file(s3, fault)

\* (faulty variant: a file filled exactly to the limit is rotated as well)
needs_rotate_at_limit(m_current_size, size, m_max_size) ==
    (m_current_size + size) % SizeMod >= m_max_size

\* if (m_current_size + msg.size() > m_max_size)
needs_rotate(m_current_size, size, m_max_size) ==
    (m_current_size + size) % SizeMod > m_max_size

\* the rest of log, after the size check
write_and_flush(s, msg, level) ==
    LET s1 == write(s, msg)
        s2 == [s1 EXCEPT !.m_current_size = (@ + Len(msg)) % SizeMod]
    IN IF should_flush(level, s.m_flush_level) THEN flush(s2) ELSE s2

\* (faulty variant: the size is checked again after a rotation)
rotating_log_recheck(s, msg, level, fault) ==
    LET s1 == IF needs_rotate(s.m_current_size, Len(msg), s.m_max_size)
              THEN rotate(s, fault)
              ELSE s
        s2 == IF ~s1.threw /\ needs_rotate(s1.m_current_size, Len(msg), s1.m_max_size)
              THEN rotate(s1, fault)
              ELSE s1
    IN IF s2.threw THEN s2 ELSE write_and_flush(s2, msg, level)

\* (faulty variant: the first byte is written before the size check)
rotating_log_split(s, msg, level, fault) ==
    LET s0 == IF msg = <<>> THEN s ELSE write_and_flush(s, <<msg[1]>>, level)
        rest == IF msg = <<>> THEN msg ELSE Tail(msg)
        s1 == IF needs_rotate(s0.m_current_size, Len(rest), s0.m_max_size)
              THEN rotate(s0, fault)
              ELSE s0
    IN IF s1.threw THEN s1 ELSE write_and_flush(s1, rest, level)

\* rotating_file_sink::log; an exception thrown by rotate leaves the function
rotating_log(s, msg, level, fault) ==
    LET s1 == IF needs_rotate(s.m_current_size, Len(msg), s.m_max_size)
              THEN rotate(s, fault)
              ELSE s
    IN IF s1.threw THEN s1 ELSE write_and_flush(s1, msg, level)

\* file_sink::log
file_log(s, msg, level) ==
    LET s1 == write(s, msg)
    IN IF should_flush(level, s.m_flush_level) THEN flush(s1) ELSE s1

----------------------------------------------------------------------------
(* console_sink, err_console_sink *)

\* const char* reset_code = "\x1b[0m"
reset_code == << <<-1, none>> >>

\* get_ansi_color_code: a code of its own for every severity but none, which
\* gets the reset code
get_ansi_color_code(level) == << <<-1, level>> >>

\* (faulty variant: the stream is not flushed)
fflush_later(stream) == stream

\* std::fwrite(bytes, 1, n, stream), std::fflush(stream)
fwrite(stream, bytes) == [stream EXCEPT !.buf = @ \o bytes]
fflush(stream) == [buf |-> <<>>, term |-> stream.term \o stream.buf]

\* console_sink::log on stdout, err_console_sink::log on stderr
console_log(stream, msg, level) ==
    fflush(fwrite(fwrite(fwrite(stream, get_ansi_color_code(level)), msg), reset_code))

----------------------------------------------------------------------------
(* Construction *)

\* the bytes of the message of call c, of length n
Message(c, n) == [k \in 1..n |-> <<c, k>>]

\* A sink object before its constructor body runs, on a disk that holds
\* found.content at the base path when found.present, and nothing otherwise

\* (faulty variant: the default threshold is info)
NewSink_default_info(max_size, max_files, found) ==
    [m_flush_level |-> info,
     m_max_size |-> max_size,
     m_max_files |-> max_files,
     m_current_size |-> 0,
     m_file_open |-> FALSE,
     m_file_buf |-> <<>>,
     disk |-> IF found.present THEN (m_base_filename :> found.content) ELSE <<>>,
     n_rotate |-> 0,
     n_flush |-> 0,
     threw |-> FALSE]

NewSink(max_size, max_files, found) ==
    [m_flush_level |-> trace,
     m_max_size |-> max_size,
     m_max_files |-> max_files,
     m_current_size |-> 0,
     m_file_open |-> FALSE,
     m_file_buf |-> <<>>,
     disk |-> IF found.present THEN (m_base_filename :> found.content) ELSE <<>>,
     n_rotate |-> 0,
     n_flush |-> 0,
     threw |-> FALSE]

\* rotating_file_sink(base_filename, max_size, max_files) { open_file(); }
\* file_sink(filename) { m_file.open(filename, out | app); }
Construct(max_size, max_files, found) ==
    open_file(NewSink(max_size, max_files, found), "none")

\* n_rotate, n_flush and threw describe one call: how often it rotated and
\* flushed and whether an exception left it
Call(s) == [s EXCEPT !.threw = FALSE, !.n_rotate = 0, !.n_flush = 0]

Before(s) == [files |-> Files(s), m_current_size |-> s.m_current_size]

Threads == 1..NThreads

\* no thread is inside log
NoThreads ==
    /\ m_mutex = 0
    /\ pc = [t \in Threads |-> "idle"]
    /\ idx = [t \in Threads |-> 1]
    /\ put = [t \in Threads |-> 0]
    /\ out = [buf |-> <<>>, term |-> <<>>]

\* formatter::format is not being called
NoFormat == fmtr = [called |-> FALSE]

\* no pattern is being rendered, no history is kept, no threads share sinks
Idle ==
    /\ rnd = [called |-> FALSE]
    /\ ho = [pc |-> "idle"]
    /\ hist = <<>>
    /\ loggers = <<>>
    /\ mtx = <<>>
    /\ thr = <<>>
    /\ acc = [op |-> "none"]

\* no logger is in use
NoLogger ==
    /\ err_out = [buf |-> <<>>, term |-> <<>>]
    /\ log_name = <<>>
    /\ log_pattern = <<>>
    /\ m_sinks = <<>>
    /\ objs = <<>>
    /\ added = <<>>
    /\ last_log = [op |-> "none"]

InitContents ==
    {[present |-> FALSE, content |-> <<>>]}
    \cup {[present |-> TRUE, content |-> Message(0, n)] : n \in 0..MaxInitLen}

Init ==
    /\ kind \in {"file", "rotating"}
    /\ \E max_size \in 0..MaxMaxSize, max_files \in 0..MaxMaxFiles, found \in InitContents :
          /\ kind = "file" => max_size = 0 /\ max_files = 0
          /\ sink = Construct(max_size, max_files, found)
    /\ calls = 0
    /\ last = [op |-> "construct", level |-> none, msg |-> <<>>, pre |-> Before(sink), threw |-> FALSE]
    /\ flush_arg = [set |-> FALSE, level |-> none]
    /\ NoThreads
    /\ NoLogger
    /\ NoFormat
    /\ Idle

----------------------------------------------------------------------------
(* Operations *)


RotatingLog ==
    /\ kind = "rotating"
    /\ calls < MaxCalls
    /\ \E n \in 0..MaxMsgLen, level \in log_level :
          LET msg == Message(calls + 1, n) IN
          /\ sink' = rotating_log(Call(sink), msg, level, "none")
          /\ last' = [op |-> "log", level |-> level, msg |-> msg, pre |-> Before(sink), threw |-> FALSE]
    /\ calls' = calls + 1
    /\ UNCHANGED <<kind, flush_arg>>
    /\ UNCHANGED conc_vars
    /\ UNCHANGED logger_vars
    /\ UNCHANGED <<fmtr, late_vars>>

FileLog ==
    /\ kind = "file"
    /\ calls < MaxCalls
    /\ \E n \in 0..MaxMsgLen, level \in log_level :
          LET msg == Message(calls + 1, n) IN
          /\ sink' = file_log(Call(sink), msg, level)
          /\ last' = [op |-> "log", level |-> level, msg |-> msg, pre |-> Before(sink), threw |-> FALSE]
    /\ calls' = calls + 1
    /\ UNCHANGED <<kind, flush_arg>>
    /\ UNCHANGED conc_vars
    /\ UNCHANGED logger_vars
    /\ UNCHANGED <<fmtr, late_vars>>

\* (a flush_on after the last log call of a run has no effect left to observe)
FlushOn ==
    /\ calls < MaxCalls
    /\ \E level \in log_level :
          /\ sink' = flush_on(Call(sink), level)
          /\ last' = [op |-> "flush_on", level |-> level, msg |-> <<>>, pre |-> Before(sink), threw |-> FALSE]
          /\ flush_arg' = [set |-> TRUE, level |-> level]
    /\ UNCHANGED <<kind, calls>>
    /\ UNCHANGED conc_vars
    /\ UNCHANGED logger_vars
    /\ UNCHANGED <<fmtr, late_vars>>

Next == RotatingLog \/ FileLog \/ FlushOn

Spec == Init /\ [][Next]_vars

----------------------------------------------------------------------------
(* Text is a sequence of characters, each a string of length one *)

Digit(d) == <<"0", "1", "2", "3", "4", "5", "6", "7", "8", "9">>[d + 1]

\* std::to_string(int), and operator<<(int) with the default format
RECURSIVE to_string(_)
to_string(n) ==
    IF n < 0 THEN <<"-">> \o to_string(0 - n)
    ELSE IF n < 10 THEN <<Digit(n)>>
    ELSE to_string(n \div 10) \o <<Digit(n % 10)>>

\* oss << std::setw(2) << std::setfill('0') << time_value
format_time(time_value) ==
    LET digits == to_string(time_value)
    IN IF Len(digits) < 2 THEN <<"0">> \o digits ELSE digits

weekdays(wday) ==
    IF wday >= 0 /\ wday < 7
    THEN <<<<"S", "u", "n", "d", "a", "y">>,
           <<"M", "o", "n", "d", "a", "y">>,
           <<"T", "u", "e", "s", "d", "a", "y">>,
           <<"W", "e", "d", "n", "e", "s", "d", "a", "y">>,
           <<"T", "h", "u", "r", "s", "d", "a", "y">>,
           <<"F", "r", "i", "d", "a", "y">>,
           <<"S", "a", "t", "u", "r", "d", "a", "y">>>>[wday + 1]
    ELSE <<"I", "n", "v", "a", "l", "i", "d", " ", "D", "a", "y">>

months(mon) ==
    IF mon >= 0 /\ mon < 12
    THEN <<<<"J", "a", "n", "u", "a", "r", "y">>,
           <<"F", "e", "b", "r", "u", "a", "r", "y">>,
           <<"M", "a", "r", "c", "h">>,
           <<"A", "p", "r", "i", "l">>,
           <<"M", "a", "y">>,
           <<"J", "u", "n", "e">>,
           <<"J", "u", "l", "y">>,
           <<"A", "u", "g", "u", "s", "t">>,
           <<"S", "e", "p", "t", "e", "m", "b", "e", "r">>,
           <<"O", "c", "t", "o", "b", "e", "r">>,
           <<"N", "o", "v", "e", "m", "b", "e", "r">>,
           <<"D", "e", "c", "e", "m", "b", "e", "r">>>>[mon + 1]
    ELSE <<"I", "n", "v", "a", "l", "i", "d", " ", "M", "o", "n", "t", "h">>

(* date_time_formatter: t is a std::tm *)

full_weekday_name(t) == weekdays(t.tm_wday)
full_month_name(t) == months(t.tm_mon)
year_2_digits(t) == to_string(t.tm_year % 100)
year_4_digits(t) == to_string(t.tm_year + 1900)

date_time_representation(t) ==
    weekdays(t.tm_wday) \o <<" ">> \o months(t.tm_mon) \o <<" ">>
    \o to_string(t.tm_mday) \o <<" ">> \o to_string(t.tm_year + 1900) \o <<" ">>
    \o format_time(t.tm_hour) \o <<":">> \o format_time(t.tm_min) \o <<":">> \o format_time(t.tm_sec)

short_MMDDYY_date(t) ==
    format_time(t.tm_mon + 1) \o <<"/">> \o format_time(t.tm_mday) \o <<"/">>
    \o format_time(t.tm_year % 100)

month(t) == to_string(t.tm_mon + 1)
day_of_month(t) == to_string(t.tm_mday)
hours_24_format(t) == to_string(t.tm_hour)

hours_12_format(t) ==
    LET hours12 == t.tm_hour % 12
    IN to_string(IF hours12 = 0 THEN 12 ELSE hours12)

minutes(t) == to_string(t.tm_min)
seconds(t) == to_string(t.tm_sec)
AM_PM(t) == IF t.tm_hour < 12 THEN <<"A", "M">> ELSE <<"P", "M">>

clock_12_hour(t) ==
    format_time(IF t.tm_hour % 12 = 0 THEN 12 ELSE t.tm_hour % 12) \o <<":">>
    \o format_time(t.tm_min) \o <<":">> \o format_time(t.tm_sec) \o <<" ">>
    \o (IF t.tm_hour < 12 THEN <<"A", "M">> ELSE <<"P", "M">>)

HHMM_time_24_hour(t) == format_time(t.tm_hour) \o <<":">> \o format_time(t.tm_min)

ISO8601_time_format(t) ==
    format_time(t.tm_hour) \o <<":">> \o format_time(t.tm_min) \o <<":">> \o format_time(t.tm_sec)

log_level_to_string(level) ==
    CASE level = trace -> <<"t", "r", "a", "c", "e">>
      [] level = info -> <<"i", "n", "f", "o">>
      [] level = debug -> <<"d", "e", "b", "u", "g">>
      [] level = warning -> <<"w", "a", "r", "n", "i", "n", "g">>
      [] level = error -> <<"e", "r", "r", "o", "r">>
      [] level = critical -> <<"c", "r", "i", "t", "i", "c", "a", "l">>
      [] OTHER -> <<"n", "o", "n", "e">>

----------------------------------------------------------------------------
(* logger: the pattern renderer *)

\* (faulty variant: a token the switch does not know is dropped)
pattern_token_known_only(c, level, message, name, t) ==
    CASE c = "V" -> message
      [] c = "N" -> name
      [] c = "L" -> log_level_to_string(level)
      [] c = "A" -> full_weekday_name(t)
      [] c = "B" -> full_month_name(t)
      [] c = "C" -> year_2_digits(t)
      [] c = "Y" -> year_4_digits(t)
      [] c = "R" -> date_time_representation(t)
      [] c = "D" -> short_MMDDYY_date(t)
      [] c = "m" -> month(t)
      [] c = "d" -> day_of_month(t)
      [] c = "H" -> hours_24_format(t)
      [] c = "h" -> hours_12_format(t)
      [] c = "M" -> minutes(t)
      [] c = "S" -> seconds(t)
      [] c = "F" -> AM_PM(t)
      [] c = "x" -> clock_12_hour(t)
      [] c = "X" -> HHMM_time_24_hour(t)
      [] c = "T" -> ISO8601_time_format(t)
      [] c = "%" -> <<"%">>
      [] c = "n" -> <<"\n">>
      [] OTHER -> <<>>

\* the switch on log_pattern[i + 1]
pattern_token(c, level, message, name, t) ==
    CASE c = "V" -> message
      [] c = "N" -> name
      [] c = "L" -> log_level_to_string(level)
      [] c = "A" -> full_weekday_name(t)
      [] c = "B" -> full_month_name(t)
      [] c = "C" -> year_2_digits(t)
      [] c = "Y" -> year_4_digits(t)
      [] c = "R" -> date_time_representation(t)
      [] c = "D" -> short_MMDDYY_date(t)
      [] c = "m" -> month(t)
      [] c = "d" -> day_of_month(t)
      [] c = "H" -> hours_24_format(t)
      [] c = "h" -> hours_12_format(t)
      [] c = "M" -> minutes(t)
      [] c = "S" -> seconds(t)
      [] c = "F" -> AM_PM(t)
      [] c = "x" -> clock_12_hour(t)
      [] c = "X" -> HHMM_time_24_hour(t)
      [] c = "T" -> ISO8601_time_format(t)
      [] c = "%" -> <<"%">>
      [] c = "n" -> <<"\n">>
      [] OTHER -> <<"%", c>>

\* the loop of logger::pattern from position i on (positions count from 1);
\* what it appends to oss
RECURSIVE pattern_loop(_, _, _, _, _, _)
pattern_loop(i, pat, level, message, name, t) ==
    IF ~(i <= Len(pat)) THEN <<>>
    ELSE IF pat[i] # "%" THEN <<pat[i]>> \o pattern_loop(i + 1, pat, level, message, name, t)
    ELSE IF i + 1 > Len(pat) THEN <<"%">>
    ELSE pattern_token(pat[i + 1], level, message, name, t)
         \o pattern_loop(i + 2, pat, level, message, name, t)

\* (faulty variant: the rendered text is rendered once more)
pattern_twice(pat, name, level, message, t) ==
    pattern_loop(1, pattern_loop(1, pat, level, message, name, t), level, message, name, t)

\* void pattern(level, message, final_message) const, with the time it reads
pattern(pat, name, level, message, t) == pattern_loop(1, pat, level, message, name, t)

----------------------------------------------------------------------------
(* formatter: the std::ostringstream it writes to *)

isdigit(c) == c \in {"0", "1", "2", "3", "4", "5", "6", "7", "8", "9"}

\* c - '0'
DigitValue(c) ==
    CASE c = "0" -> 0 [] c = "1" -> 1 [] c = "2" -> 2 [] c = "3" -> 3 [] c = "4" -> 4
      [] c = "5" -> 5 [] c = "6" -> 6 [] c = "7" -> 7 [] c = "8" -> 8 [] c = "9" -> 9

\* the formatting state of a stream, as std::ios::copyfmt copies it;
\* these are the values of a freshly constructed stream
DefaultFlags ==
    [fill |-> " ", width |-> 0, precision |-> 6, basefield |-> "dec",
     floatfield |-> "none", uppercase |-> FALSE, boolalpha |-> FALSE]

\* std::ostringstream oss; pieces lists what format has appended to it, piece
\* by piece, with the formatting state each piece met
NewStream == [str |-> <<>>, flags |-> DefaultFlags, pieces |-> <<>>]

\* oss.copyfmt(state)
copyfmt(oss, state) == [oss EXCEPT !.flags = state]

\* the characters of one formatted output operation: text padded on the left
\* with the fill character up to the width
Padded(flags, text) ==
    IF Len(text) < flags.width
    THEN [i \in 1..(flags.width - Len(text)) |-> flags.fill] \o text
    ELSE text

\* operator<< of a character, a string or a value whose characters are text:
\* uses the width and resets it to 0
put_text(oss, text) ==
    [oss EXCEPT !.str = @ \o Padded(oss.flags, text), !.flags.width = 0]

\* the digits of n >= 0 in base b
RECURSIVE to_base(_, _, _)
to_base(n, b, upper) ==
    LET digits == IF upper
                  THEN <<"0", "1", "2", "3", "4", "5", "6", "7", "8", "9",
                         "A", "B", "C", "D", "E", "F">>
                  ELSE <<"0", "1", "2", "3", "4", "5", "6", "7", "8", "9",
                         "a", "b", "c", "d", "e", "f">>
    IN IF n < b THEN <<digits[n + 1]>>
       ELSE to_base(n \div b, b, upper) \o <<digits[(n % b) + 1]>>

RECURSIVE Pow10(_)
Pow10(p) == IF p = 0 THEN 1 ELSE 10 * Pow10(p - 1)

(* A double argument is a number of quarters, 1 <= value < 9.5, which a     *)
(* double holds exactly; a tie is rounded to even, as the conversion does.   *)

\* the value with p digits after the point (%.pf)
fixed_text(quarters, p) ==
    LET scaled == quarters * Pow10(p)
        down == scaled \div 4
        rest == scaled % 4
        n == IF 2 * rest > 4 \/ (2 * rest = 4 /\ down % 2 = 1) THEN down + 1 ELSE down
        ds == to_string(n)
    IN IF p = 0 THEN ds
       ELSE SubSeq(ds, 1, Len(ds) - p) \o <<".">> \o SubSeq(ds, Len(ds) - p + 1, Len(ds))

RECURSIVE strip_zeros(_)
strip_zeros(text) ==
    IF text[Len(text)] = "0" THEN strip_zeros(SubSeq(text, 1, Len(text) - 1))
    ELSE IF text[Len(text)] = "." THEN SubSeq(text, 1, Len(text) - 1)
    ELSE text

\* the value with p significant digits, trailing zeros removed (%.pg)
general_text(quarters, p) ==
    LET sig == IF p = 0 THEN 1 ELSE p
    IN IF sig = 1 THEN fixed_text(quarters, 0) ELSE strip_zeros(fixed_text(quarters, sig - 1))

\* the value as d.ddde+00 (%.pe)
scientific_text(quarters, p, upper) ==
    fixed_text(quarters, p) \o (IF upper THEN <<"E", "+", "0", "0">> ELSE <<"e", "+", "0", "0">>)

\* the characters operator<< produces for a value before padding
value_text(flags, val) ==
    CASE val.type = "string" -> val.s
      [] val.type = "int" ->
            (CASE flags.basefield = "hex" -> to_base(val.n, 16, flags.uppercase)
               [] flags.basefield = "oct" -> to_base(val.n, 8, FALSE)
               [] OTHER -> to_base(val.n, 10, FALSE))
      [] val.type = "bool" ->
            (IF flags.boolalpha
             THEN (IF val.b THEN <<"t", "r", "u", "e">> ELSE <<"f", "a", "l", "s", "e">>)
             ELSE (IF val.b THEN <<"1">> ELSE <<"0">>))
      [] val.type = "double" ->
            (CASE flags.floatfield = "fixed" -> fixed_text(val.n, flags.precision)
               [] flags.floatfield = "scientific" ->
                    scientific_text(val.n, flags.precision, flags.uppercase)
               [] OTHER -> general_text(val.n, flags.precision))

----------------------------------------------------------------------------
(* formatter::parse_and_apply_spec *)

\* the value of a string of digits (width = width * 10 + (spec[i] - '0'))
RECURSIVE DecValue(_)
DecValue(digits) ==
    IF digits = <<>> THEN 0
    ELSE DecValue(SubSeq(digits, 1, Len(digits) - 1)) * 10 + DigitValue(digits[Len(digits)])

\* the first position from i on that does not hold a digit
RECURSIVE skip_digits(_, _)
skip_digits(text, i) ==
    IF i <= Len(text) /\ isdigit(text[i]) THEN skip_digits(text, i + 1) ELSE i

\* the switch of the final loop
apply_flag(flags, c) ==
    CASE c = "x" -> [flags EXCEPT !.basefield = "hex"]
      [] c = "X" -> [flags EXCEPT !.uppercase = TRUE, !.basefield = "hex"]
      [] c = "d" -> [flags EXCEPT !.basefield = "dec"]
      [] c = "o" -> [flags EXCEPT !.basefield = "oct"]
      [] c = "f" -> [flags EXCEPT !.floatfield = "fixed"]
      [] c = "e" -> [flags EXCEPT !.floatfield = "scientific"]
      [] c = "b" -> [flags EXCEPT !.boolalpha = TRUE]
      [] c \in {"u", "U"} -> [flags EXCEPT !.uppercase = TRUE]
      [] OTHER -> flags

\* for (; i < spec.size(); ++i) switch (spec[i]) ...
RECURSIVE apply_flags(_, _, _)
apply_flags(flags, spec, i) ==
    IF i > Len(spec) THEN flags
    ELSE apply_flags(apply_flag(flags, spec[i]), spec, i + 1)

\* parse_and_apply_spec(oss, spec): [0][width][.precision][flags]
\* (positions count from 1)
parse_and_apply_spec(oss, spec) ==
    IF spec = <<>> THEN oss
    ELSE LET zero == spec[1] = "0"
             f1 == IF zero THEN [oss.flags EXCEPT !.fill = "0"] ELSE oss.flags
             i1 == IF zero THEN 2 ELSE 1
             has_width == i1 <= Len(spec) /\ isdigit(spec[i1])
             i2 == IF has_width THEN skip_digits(spec, i1) ELSE i1
             f2 == IF has_width
                   THEN [f1 EXCEPT !.width = DecValue(SubSeq(spec, i1, i2 - 1))]
                   ELSE f1
             has_prec == i2 <= Len(spec) /\ spec[i2] = "."
             i3 == IF has_prec THEN skip_digits(spec, i2 + 1) ELSE i2
             f3 == IF has_prec
                   THEN [f2 EXCEPT !.floatfield = "fixed",
                                   !.precision = DecValue(SubSeq(spec, i2 + 1, i3 - 1))]
                   ELSE f2
         IN [oss EXCEPT !.flags = apply_flags(f3, spec, i3)]

\* (faulty variant: the stream keeps the state the specifier set)
format_helper_keep(oss, val, spec) ==
    LET s1 == parse_and_apply_spec(oss, spec)
    IN put_text(s1, value_text(s1.flags, val))

\* format_helper<T>: save the state, apply the specifier, oss << val, restore
format_helper(oss, val, spec) ==
    LET state == oss.flags
        s1 == parse_and_apply_spec(oss, spec)
        s2 == put_text(s1, value_text(s1.flags, val))
    IN copyfmt(s2, state)

----------------------------------------------------------------------------
(* formatter::format *)

\* fmt.find(c, pos): the first position from pos on that holds c, 0 for npos
RECURSIVE find(_, _, _)
find(fmt, c, pos) ==
    IF pos > Len(fmt) THEN 0
    ELSE IF fmt[pos] = c THEN pos
    ELSE find(fmt, c, pos + 1)

\* (faulty variant: a doubled brace is not an escape)
is_doubled_never(fmt, pos) == FALSE

\* pos + 1 < fmt.size() && fmt[pos + 1] == fmt[pos]
is_doubled(fmt, pos) == pos + 1 <= Len(fmt) /\ fmt[pos + 1] = fmt[pos]

\* the while loop over the digits of content: idx_val is a size_t
RECURSIVE idx_val_loop(_, _, _)
idx_val_loop(content, k, idx_val) ==
    IF k <= Len(content) /\ isdigit(content[k])
    THEN idx_val_loop(content, k + 1, (idx_val * 10 + DigitValue(content[k])) % SizeMod)
    ELSE idx_val

\* the index part of a placeholder: explicit_index, index and spec_start
\* (spec_start is the position of the character after the index, from 1)
parse_index(content) ==
    LET k == skip_digits(content, 1)
    IN IF content # <<>> /\ isdigit(content[1]) /\ (k > Len(content) \/ content[k] = ":")
       THEN [explicit_index |-> TRUE, index |-> idx_val_loop(content, 1, 0), spec_start |-> k]
       ELSE [explicit_index |-> FALSE, index |-> 0, spec_start |-> 1]

\* (faulty variant: every placeholder advances the counter)
next_arg_counter_always(arg_counter, explicit_index) == (arg_counter + 1) % SizeMod

\* if (!explicit_index) index = arg_counter++;
next_arg_counter(arg_counter, explicit_index) ==
    IF explicit_index THEN arg_counter ELSE (arg_counter + 1) % SizeMod

\* std::string_view spec: what follows a ':' at spec_start
spec_of(content, spec_start) ==
    IF spec_start <= Len(content) /\ content[spec_start] = ":"
    THEN SubSeq(content, spec_start + 1, Len(content))
    ELSE <<>>

\* a step of the loop appended to before.str and turned it into after: the
\* record of that piece
Piece(before, after, what, content, index, spec) ==
    [after EXCEPT !.pieces =
        Append(@, [what |-> what, flags |-> before.flags, content |-> content,
                   index |-> index, spec |-> spec,
                   text |-> SubSeq(after.str, Len(before.str) + 1, Len(after.str))])]

\* oss << c for a character of the template
put_literal(oss, text) == Piece(oss, put_text(oss, text), "literal", text, 0, <<>>)

\* the while (pos < fmt.size()) loop, args being the wrappers
RECURSIVE format_loop(_, _, _, _, _)
format_loop(fmt, args, oss, arg_counter, pos) ==
    IF pos > Len(fmt) THEN oss
    ELSE IF fmt[pos] = "{" THEN
        IF is_doubled(fmt, pos)
        THEN format_loop(fmt, args, put_literal(oss, <<"{">>), arg_counter, pos + 2)
        ELSE LET end_brace == find(fmt, "}", pos) IN
             IF end_brace = 0
             THEN put_literal(oss, SubSeq(fmt, pos, Len(fmt)))
             ELSE LET content == SubSeq(fmt, pos + 1, end_brace - 1)
                      parsed == parse_index(content)
                      index == IF parsed.explicit_index THEN parsed.index ELSE arg_counter
                      spec == spec_of(content, parsed.spec_start)
                      s1 == IF index < Len(args)
                            THEN format_helper(oss, args[index + 1], spec)
                            ELSE oss
                  IN format_loop(fmt, args,
                                 Piece(oss, s1, "placeholder", content, index, spec),
                                 next_arg_counter(arg_counter, parsed.explicit_index),
                                 end_brace + 1)
    ELSE IF fmt[pos] = "}" THEN
        IF is_doubled(fmt, pos)
        THEN format_loop(fmt, args, put_literal(oss, <<"}">>), arg_counter, pos + 2)
        ELSE format_loop(fmt, args, put_literal(oss, <<"}">>), arg_counter, pos + 1)
    ELSE format_loop(fmt, args, put_literal(oss, <<fmt[pos]>>), arg_counter, pos + 1)

\* the else branch of format: sizeof...(Args) > 0
format_args(fmt, args) == format_loop(fmt, args, NewStream, 0, 1)

\* (faulty variant: the template is scanned although there are no arguments)
format0_scanned(fmt) == format_args(fmt, <<>>).str

\* formatter::format(fmt) without arguments: return std::string(fmt)
format0(fmt) == fmt

\* formatter::format(fmt, args...)
format(fmt, args) == IF Len(args) = 0 THEN format0(fmt) ELSE format_args(fmt, args).str


----------------------------------------------------------------------------
(* logger *)

(* The sinks a logger calls live in a record w: kinds[id] is the class of   *)
(* sink id, objs[id] its members, out and err the two console streams,      *)
(* invoked the calls of sink->log made so far, threw whether an exception   *)
(* is propagating.                                                          *)

\* virtual void isink::log(final_message, level), by the class of the object
sink_log(w, id, msg, level, fault) ==
    LET w1 == [w EXCEPT !.invoked = Append(@, [sink |-> id, line |-> msg, level |-> level])]
    IN CASE w.kinds[id] = "console" -> [w1 EXCEPT !.out = console_log(@, msg, level)]
         [] w.kinds[id] = "err_console" -> [w1 EXCEPT !.err = console_log(@, msg, level)]
         [] w.kinds[id] = "file" -> [w1 EXCEPT !.objs[id] = file_log(Call(@), msg, level)]
         [] w.kinds[id] = "rotating" ->
                LET s1 == rotating_log(Call(w.objs[id]), msg, level, fault)
                IN [w1 EXCEPT !.objs[id] = s1, !.threw = s1.threw]

\* for (auto& sink : m_sinks) sink->log(final_log_message, level);
\* there is no try block: an exception thrown by a sink ends the loop and
\* leaves logger::log.  from is the position in m_sinks the loop has reached.
RECURSIVE for_each_sink(_, _, _, _, _, _)
for_each_sink(w, sinks_list, from, msg, level, fault) ==
    IF w.threw \/ from > Len(sinks_list) THEN w
    ELSE for_each_sink(sink_log(w, sinks_list[from], msg, level, fault),
                       sinks_list, from + 1, msg, level, fault)

\* logger::log(level, message): format, render with the time t, dispatch
logger_log(pat, name, sinks_list, w, level, message, t, fault) ==
    LET user_message == format0(message)
        final_log_message == pattern(pat, name, level, user_message, t)
    IN for_each_sink(w, sinks_list, 1, final_log_message, level, fault)

\* (faulty variant: a sink that is already in the list is not added again)
add_sink_unique(sinks_list, id) ==
    IF \E i \in 1..Len(sinks_list) : sinks_list[i] = id THEN sinks_list
    ELSE Append(sinks_list, id)

\* void add_sink(sink) { m_sinks.push_back(sink); }
add_sink(sinks_list, id) == Append(sinks_list, id)

\* (faulty variant: a pattern that ends in an unfinished token is rejected)
set_pattern_checked(cur, pat) ==
    IF pat # <<>> /\ pat[Len(pat)] = "%" THEN cur ELSE pat

\* void set_pattern(pattern) { log_pattern = pattern; } and get_pattern()
set_pattern(cur, pat) == pat
get_pattern == log_pattern

\* void set_name(name) { log_name = name; } and get_name()
set_name(cur, name) == name
get_name == log_name

\* (faulty variant: the threshold is given to every sink there is)
logger_flush_on_all(os, sinks_list, from, level) ==
    [id \in DOMAIN os |-> flush_on(os[id], level)]

\* logger::flush_on(level): for (auto& sink : m_sinks) sink->flush_on(level);
RECURSIVE logger_flush_on(_, _, _, _)
logger_flush_on(os, sinks_list, from, level) ==
    IF from > Len(sinks_list) THEN os
    ELSE logger_flush_on([os EXCEPT ![sinks_list[from]] = flush_on(@, level)],
                         sinks_list, from + 1, level)

\* what the clock may say when a message is rendered
Times ==
    {[tm_wday |-> 0, tm_mon |-> 0, tm_mday |-> 5, tm_year |-> 126,
      tm_hour |-> 0, tm_min |-> 7, tm_sec |-> 9],
     [tm_wday |-> 6, tm_mon |-> 11, tm_mday |-> 31, tm_year |-> 99,
      tm_hour |-> 13, tm_min |-> 59, tm_sec |-> 30]}

\* a stream watched from now on: term holds what reaches the terminal during
\* the logger operation that follows
Observe(stream) == [stream EXCEPT !.term = <<>>]

----------------------------------------------------------------------------
(* A logger<rotating_file_sink> whose file operations may fail *)

\* the file operation of rotate that fails during a call, if any
Faults == {"none", "remove", "shift", "rename", "open"}

\* the severities logged where file operations may fail
FaultLevels == {none, critical}

InitFail ==
    /\ kind = "rotating"
    /\ \E max_size \in 0..MaxMaxSize, max_files \in 1..MaxMaxFiles, found \in InitContents :
          sink = Construct(max_size, max_files, found)
    /\ calls = 0
    /\ last = [op |-> "construct", level |-> none, msg |-> <<>>, pre |-> Before(sink), threw |-> FALSE]
    /\ flush_arg = [set |-> FALSE, level |-> none]
    /\ NoThreads
    /\ err_out = [buf |-> <<>>, term |-> <<>>]
    /\ log_name = <<"a", "p", "p">>
    /\ log_pattern = <<"%", "V">>
    /\ m_sinks = <<1>>
    /\ objs = <<>>
    /\ added = <<1>>
    /\ last_log = [op |-> "none"]
    /\ NoFormat
    /\ Idle

\* logger::log(level, message) on that logger
LoggerLogFaulty ==
    /\ calls < MaxCalls
    /\ \E n \in 0..MaxMsgLen, level \in FaultLevels, fault \in Faults, t \in Times :
          LET msg == Message(calls + 1, n)
              w == [kinds |-> (1 :> "rotating"), objs |-> (1 :> sink),
                    out |-> out, err |-> err_out, invoked |-> <<>>, threw |-> FALSE]
              r == logger_log(log_pattern, log_name, m_sinks, w, level, msg, t, fault)
          IN /\ sink' = r.objs[1]
             /\ last' = [op |-> "log", level |-> level, msg |-> msg,
                         pre |-> Before(sink), threw |-> r.threw]
    /\ calls' = calls + 1
    /\ UNCHANGED <<kind, flush_arg>>
    /\ UNCHANGED conc_vars
    /\ UNCHANGED logger_vars
    /\ UNCHANGED <<fmtr, late_vars>>

NextFail == LoggerLogFaulty

SpecFail == InitFail /\ [][NextFail]_vars

----------------------------------------------------------------------------
(* A logger<console_sink> and the sinks added to it *)

\* sink 1 is the logger's default console_sink, sink 2 an err_console_sink
SinkKinds == (1 :> "console") @@ (2 :> "err_console")
SinkIds == DOMAIN SinkKinds

Names == {<<"a", "p", "p">>, <<"d", "b">>}
DefaultPattern == <<"[", "%", "R", "]", " ", "%", "N", ":", " ", "%", "V", "%", "n">>
Patterns == {DefaultPattern, <<"[", "%", "L", "]", " ", "%", "N", ":", " ", "%", "V", "%", "n">>, <<"%", "V">>, <<"%", "Q", " ", "%", "T", "%">>}
UserMessages == {<<"h", "i">>, <<"%", "N">>}

\* the thresholds given to logger::flush_on
FlushLevels == {trace, error}

\* op is the operation, arg the string it was given (set_name, set_pattern),
\* level its severity or threshold (log, flush_on)
LoggerOp(op) == [op |-> op, level |-> none, message |-> <<>>, tm |-> CHOOSE t \in Times : TRUE,
                 invoked |-> <<>>, arg |-> <<>>]

\* logger(name, pattern): m_sinks.push_back(std::make_shared<DefaultSink>())
InitLogger ==
    /\ kind = "console"
    /\ sink = Construct(0, 0, [present |-> FALSE, content |-> <<>>])
    /\ calls = 0
    /\ last = [op |-> "construct", level |-> none, msg |-> <<>>, pre |-> Before(sink), threw |-> FALSE]
    /\ flush_arg = [set |-> FALSE, level |-> none]
    /\ NoThreads
    /\ err_out = [buf |-> <<>>, term |-> <<>>]
    /\ log_name \in Names
    /\ log_pattern \in {DefaultPattern}
    /\ m_sinks = <<1>>
    /\ objs = [id \in SinkIds |-> [m_flush_level |-> trace]]
    /\ added = <<1>>
    /\ last_log = LoggerOp("construct")
    /\ NoFormat
    /\ Idle

LoggerLog ==
    /\ \E level \in log_level, message \in UserMessages, t \in Times :
          LET w == [kinds |-> SinkKinds, objs |-> objs,
                    out |-> Observe(out), err |-> Observe(err_out),
                    invoked |-> <<>>, threw |-> FALSE]
              r == logger_log(log_pattern, log_name, m_sinks, w, level, message, t, "none")
          IN /\ objs' = r.objs
             /\ out' = r.out
             /\ err_out' = r.err
             /\ last_log' = [op |-> "log", level |-> level, message |-> message, tm |-> t,
                             invoked |-> r.invoked, arg |-> <<>>]
    /\ UNCHANGED <<log_name, log_pattern, m_sinks, added>>
    /\ UNCHANGED <<kind, sink, seq_vars, m_mutex, pc, idx, put>>
    /\ UNCHANGED <<fmtr, late_vars>>

AddSink ==
    /\ Len(added) < MaxSinks
    /\ \E id \in SinkIds :
          /\ m_sinks' = add_sink(m_sinks, id)
          /\ added' = Append(added, id)
    /\ last_log' = LoggerOp("add_sink")
    /\ out' = Observe(out)
    /\ err_out' = Observe(err_out)
    /\ UNCHANGED <<log_name, log_pattern, objs>>
    /\ UNCHANGED <<kind, sink, seq_vars, m_mutex, pc, idx, put>>
    /\ UNCHANGED <<fmtr, late_vars>>

\* void set_name(name) { log_name = name; }
SetName ==
    /\ \E name \in Names :
          /\ log_name' = set_name(log_name, name)
          /\ last_log' = [LoggerOp("set_name") EXCEPT !.arg = name]
    /\ out' = Observe(out)
    /\ err_out' = Observe(err_out)
    /\ UNCHANGED <<log_pattern, m_sinks, added, objs>>
    /\ UNCHANGED <<kind, sink, seq_vars, m_mutex, pc, idx, put>>
    /\ UNCHANGED <<fmtr, late_vars>>

\* void set_pattern(pattern) { log_pattern = pattern; }
SetPattern ==
    /\ \E pat \in Patterns :
          /\ log_pattern' = set_pattern(log_pattern, pat)
          /\ last_log' = [LoggerOp("set_pattern") EXCEPT !.arg = pat]
    /\ out' = Observe(out)
    /\ err_out' = Observe(err_out)
    /\ UNCHANGED <<log_name, m_sinks, added, objs>>
    /\ UNCHANGED <<kind, sink, seq_vars, m_mutex, pc, idx, put>>
    /\ UNCHANGED <<fmtr, late_vars>>

LoggerFlushOn ==
    /\ \E level \in FlushLevels :
          /\ objs' = logger_flush_on(objs, m_sinks, 1, level)
          /\ last_log' = [LoggerOp("flush_on") EXCEPT !.level = level]
    /\ out' = Observe(out)
    /\ err_out' = Observe(err_out)
    /\ UNCHANGED <<log_name, log_pattern, m_sinks, added>>
    /\ UNCHANGED <<kind, sink, seq_vars, m_mutex, pc, idx, put>>
    /\ UNCHANGED <<fmtr, late_vars>>

NextLogger == LoggerLog \/ AddSink \/ SetName \/ SetPattern \/ LoggerFlushOn

SpecLogger == InitLogger /\ [][NextLogger]_vars

----------------------------------------------------------------------------
(* Calls of formatter::format *)

\* longest template built from TemplateChars
MaxFmtLen == 3

TemplateChars == {"{", "}", ":", "1", "a"}

RECURSIVE TemplatesOfLen(_)
TemplatesOfLen(n) ==
    IF n = 0 THEN {<<>>}
    ELSE {Append(s, c) : s \in TemplatesOfLen(n - 1), c \in TemplateChars}

\* a placeholder whose index is the first number a size_t cannot hold
OverflowTemplate == <<"a", "{">> \o to_string(SizeMod) \o <<"}", "b">>

Templates ==
    UNION {TemplatesOfLen(n) : n \in 0..MaxFmtLen}
    \cup {OverflowTemplate}
    \cup {<<"{", "}", " ", "a", "n", "d", " ", "{", "}">>,
          <<"{", "1", "}", " ", "{", "0", "}">>,
          <<"{", "1", "}", " ", "{", "}">>,
          <<"{", "{", "l", "i", "t", "e", "r", "a", "l", "}", "}">>,
          <<"{", "5", "}">>,
          <<"a", "{", "5", "}", "b">>,
          <<"{", "0", ":", "0", "4", "}">>,
          <<"{", ":", "0", "4", "}">>,
          <<"{", "a", "b", ":", "0", "4", "}">>,
          <<"{", "1", "a", ":", "0", "4", "}">>,
          <<"{", "0", ":", "X", "}">>,
          <<"{", ":", "x", "}", "{", "}">>,
          <<"{", ":", "X", "}", "{", "}", "|", "{", "}">>,
          <<"{", ":", ".", "1", "f", "}", "{", "}">>,
          <<"{", ":", "e", "}", "{", "}">>,
          <<"{", ":", "b", "}", "{", "}">>,
          <<"{", ":", "0", "4", "}", "{", "}", "|">>,
          <<"{", ":", "U", ".", "1", "e", "}", "{", "}">>,
          <<"{", ":", "o", "}", "{", "}", "{", "{">>,
          <<"{", "0", ":", "0", "4", "}", "}">>,
          <<"{", "{", "{", "}", "}", "}">>,
          <<"{", "x", "{", "{">>,
          <<"{", ":", "0", "5", ".", "2", "f", "}", "|", "{", "}">>,
          <<"{", "1", ":", ".", "0", "f", "}", "{", "0", "}">>,
          <<"{", ":", "0", "}", "a", "{", "}">>,
          <<"{", "}", "{", "}", "{", "}">>,
          <<"{", "0", "}", "{", "}">>,
          <<"{", ":", "4", "x", "}", "}", "}", "{">>}

\* the arguments of a call: a string s, an int n >= 0, a bool b, or a double
\* of n quarters (2.25 is DoubleArg(9))
StrArg(v) == [type |-> "string", s |-> v, n |-> 0, b |-> FALSE]
IntArg(v) == [type |-> "int", s |-> <<>>, n |-> v, b |-> FALSE]
BoolArg(v) == [type |-> "bool", s |-> <<>>, n |-> 0, b |-> v]
DoubleArg(quarters) == [type |-> "double", s |-> <<>>, n |-> quarters, b |-> FALSE]

ArgLists ==
    {<<>>,
     <<StrArg(<<"a">>)>>,
     <<StrArg(<<"a">>), StrArg(<<"b">>)>>,
     <<IntArg(7)>>,
     <<IntArg(255), IntArg(255), IntArg(8)>>,
     <<DoubleArg(9), DoubleArg(10)>>,
     <<BoolArg(TRUE), BoolArg(FALSE)>>,
     <<IntArg(255), DoubleArg(9)>>}

InitFormat ==
    /\ kind = "console"
    /\ sink = Construct(0, 0, [present |-> FALSE, content |-> <<>>])
    /\ calls = 0
    /\ last = [op |-> "construct", level |-> none, msg |-> <<>>, pre |-> Before(sink), threw |-> FALSE]
    /\ flush_arg = [set |-> FALSE, level |-> none]
    /\ NoThreads
    /\ NoLogger
    /\ \E fmt \in Templates, args \in ArgLists :
          fmtr = [called |-> FALSE, fmt |-> fmt, args |-> args]
    /\ Idle

\* formatter::format(fmt, args...): result is what it returns, pieces and
\* flags what the stream it built the result in went through
Format ==
    /\ ~fmtr.called
    /\ fmtr' = [called |-> TRUE, fmt |-> fmtr.fmt, args |-> fmtr.args,
                result |-> format(fmtr.fmt, fmtr.args),
                pieces |-> IF Len(fmtr.args) = 0 THEN <<>>
                           ELSE format_args(fmtr.fmt, fmtr.args).pieces,
                flags |-> IF Len(fmtr.args) = 0 THEN DefaultFlags
                          ELSE format_args(fmtr.fmt, fmtr.args).flags]
    /\ UNCHANGED <<kind, sink, seq_vars, conc_vars, logger_vars, late_vars>>

NextFormat == Format

SpecFormat == InitFormat /\ [][NextFormat]_vars

----------------------------------------------------------------------------
(* A rotating sink and everything that was logged to it *)

\* the severities of the calls: one that is flushed under the default
\* threshold and one that is not
HistLevels == {none, trace}

\* a rotating sink that keeps at least one backup, on an empty file set
InitHist ==
    /\ kind = "rotating"
    /\ \E max_size \in 0..MaxMaxSize, max_files \in 1..MaxMaxFiles :
          sink = Construct(max_size, max_files, [present |-> FALSE, content |-> <<>>])
    /\ calls = 0
    /\ last = [op |-> "construct", level |-> none, msg |-> <<>>, pre |-> Before(sink), threw |-> FALSE]
    /\ flush_arg = [set |-> FALSE, level |-> none]
    /\ NoThreads
    /\ NoLogger
    /\ NoFormat
    /\ Idle

\* rotating_file_sink::log; hist records the messages of all calls so far
HistLog ==
    /\ calls < MaxCalls
    /\ \E n \in 0..MaxMsgLen, level \in HistLevels :
          LET msg == Message(calls + 1, n) IN
          /\ sink' = rotating_log(Call(sink), msg, level, "none")
          /\ last' = [op |-> "log", level |-> level, msg |-> msg, pre |-> Before(sink), threw |-> FALSE]
          /\ hist' = Append(hist, msg)
    /\ calls' = calls + 1
    /\ UNCHANGED <<kind, flush_arg>>
    /\ UNCHANGED conc_vars
    /\ UNCHANGED logger_vars
    /\ UNCHANGED <<fmtr, rnd, ho, loggers, mtx, thr, acc>>

NextHist == HistLog

SpecHist == InitHist /\ [][NextHist]_vars

----------------------------------------------------------------------------
(* Calls of logger::pattern (dtlog.h) *)

\* longest pattern built from PatternChars
MaxPatLen == 3

PatternChars == {"%", "V", "N", "Q", "a"}

RECURSIVE PatternsOfLen(_)
PatternsOfLen(n) ==
    IF n = 0 THEN {<<>>}
    ELSE {Append(s, c) : s \in PatternsOfLen(n - 1), c \in PatternChars}

\* every token of the switch on its own, and patterns that mix them
TokenPatterns ==
    {<<"%", "V">>,
     <<"%", "N">>,
     <<"%", "L">>,
     <<"%", "A">>,
     <<"%", "B">>,
     <<"%", "C">>,
     <<"%", "Y">>,
     <<"%", "R">>,
     <<"%", "D">>,
     <<"%", "m">>,
     <<"%", "d">>,
     <<"%", "H">>,
     <<"%", "h">>,
     <<"%", "M">>,
     <<"%", "S">>,
     <<"%", "F">>,
     <<"%", "x">>,
     <<"%", "X">>,
     <<"%", "T">>,
     <<"%", "%">>,
     <<"%", "n">>,
     <<"[", "%", "L", "]", " ", "%", "N", ":", " ", "%", "V", "%", "n">>,
     <<"[", "%", "R", "]", " ", "%", "N", ":", " ", "%", "V", "%", "n">>,
     <<"%", "%", "N">>,
     <<"%", "%", "%", "N">>,
     <<"%", "H", ":", "%", "M", ":", "%", "S">>,
     <<"%", "Q", " ", "%", "T", "%">>,
     <<"a", "b", "%">>,
     <<"%", "V", "%", "V">>}

\* names and messages, some of which look like tokens
RenderNames == {<<"a", "p", "p">>, <<"%", "V">>}
RenderMessages == {<<"h", "i">>, <<"%", "N">>, <<"%">>}

\* what one call of pattern reads: the logger's pattern and name, the
\* severity and message of the log call, and the clock
RenderInputs ==
    {[pat |-> p, name |-> n, level |-> info, message |-> m, tm |-> CHOOSE tt \in Times : TRUE] :
        p \in UNION {PatternsOfLen(k) : k \in 0..MaxPatLen}, n \in RenderNames, m \in RenderMessages}
    \cup
    {[pat |-> p, name |-> n, level |-> l, message |-> m, tm |-> tt] :
        p \in TokenPatterns, n \in RenderNames, l \in log_level, m \in RenderMessages, tt \in Times}

InitPattern ==
    /\ kind = "console"
    /\ sink = Construct(0, 0, [present |-> FALSE, content |-> <<>>])
    /\ calls = 0
    /\ last = [op |-> "construct", level |-> none, msg |-> <<>>, pre |-> Before(sink), threw |-> FALSE]
    /\ flush_arg = [set |-> FALSE, level |-> none]
    /\ NoThreads
    /\ NoLogger
    /\ NoFormat
    /\ \E in \in RenderInputs : rnd = [called |-> FALSE, in |-> in]
    /\ ho = [pc |-> "idle"]
    /\ hist = <<>>
    /\ loggers = <<>>
    /\ mtx = <<>>
    /\ thr = <<>>
    /\ acc = [op |-> "none"]

\* pattern(level, message, final_message): result is final_message
Render ==
    /\ ~rnd.called
    /\ rnd' = [called |-> TRUE, in |-> rnd.in,
               result |-> pattern(rnd.in.pat, rnd.in.name, rnd.in.level, rnd.in.message, rnd.in.tm)]
    /\ UNCHANGED <<kind, sink, seq_vars, conc_vars, logger_vars, fmtr>>
    /\ UNCHANGED <<ho, hist, loggers, mtx, thr, acc>>

NextPattern == Render

SpecPattern == InitPattern /\ [][NextPattern]_vars

----------------------------------------------------------------------------
(* Calls of logger::pattern (dtlog_ho.h) *)

\* the tokens the switch of dtlog_ho.h has a case for
ho_tokens ==
    {"V", "N", "L", "A", "B", "C", "Y", "R", "D", "m", "d", "H", "h", "M", "S", "F", "x", "X",
     "T", "%", "n"}

\* formatted_message.replace(pos, n, text), positions counting from 1
string_replace(s, pos, n, text) ==
    SubSeq(s, 1, pos - 1) \o text \o SubSeq(s, pos + n, Len(s))

\* what the case of a token puts in its place; the member functions of the
\* date_time_formatter and log_level_to_string of dtlog_ho.h return the same
\* texts as those of dtlog.h
ho_token_text(token, h) ==
    pattern_token(token, h.in.level, h.in.message, h.in.name, h.in.tm)

\* one turn of the while (true) loop: find the next '%' from pos on, leave
\* the loop if there is none or it is the last character, otherwise replace
\* the token if the switch knows it; pos stays on the '%' that was found.
\* turn is the parity of the number of turns taken so far
ho_iteration(h) ==
    LET fm == h.formatted_message
        found == find(fm, "%", h.pos)
    IN IF found = 0 \/ found = Len(fm)
       THEN [h EXCEPT !.pc = "done", !.pos = found, !.turn = 1 - @]
       ELSE [h EXCEPT !.pos = found,
                      !.turn = 1 - @,
                      !.formatted_message =
                          IF fm[found + 1] \in ho_tokens
                          THEN string_replace(fm, found, 2, ho_token_text(fm[found + 1], h))
                          ELSE fm]

\* what one call of the header-only pattern reads
HoInputs ==
    {[pat |-> p, name |-> <<"a", "p", "p">>, level |-> info, message |-> m, tm |-> tt] :
        p \in TokenPatterns \cup UNION {PatternsOfLen(k) : k \in 0..MaxPatLen},
        m \in {<<"h", "i">>, <<"%", "N">>}, tt \in Times}

InitHo ==
    /\ kind = "console"
    /\ sink = Construct(0, 0, [present |-> FALSE, content |-> <<>>])
    /\ calls = 0
    /\ last = [op |-> "construct", level |-> none, msg |-> <<>>, pre |-> Before(sink), threw |-> FALSE]
    /\ flush_arg = [set |-> FALSE, level |-> none]
    /\ NoThreads
    /\ NoLogger
    /\ NoFormat
    /\ rnd = [called |-> FALSE]
    /\ \E in \in HoInputs : ho = [pc |-> "idle", in |-> in, formatted_message |-> <<>>, pos |-> 1, turn |-> 0]
    /\ hist = <<>>
    /\ loggers = <<>>
    /\ mtx = <<>>
    /\ thr = <<>>
    /\ acc = [op |-> "none"]

ho_unchanged ==
    /\ UNCHANGED <<kind, sink, seq_vars, conc_vars, logger_vars>>
    /\ UNCHANGED <<fmtr, rnd, hist, loggers, mtx, thr, acc>>

\* pattern is entered: formatted_message = log_pattern; size_t pos = 0;
HoEnter ==
    /\ ho.pc = "idle"
    /\ ho' = [ho EXCEPT !.pc = "loop", !.formatted_message = ho.in.pat, !.pos = 1]
    /\ ho_unchanged

\* one turn of the loop
HoIterate ==
    /\ ho.pc = "loop"
    /\ ho' = ho_iteration(ho)
    /\ ho_unchanged

NextHo == HoEnter \/ HoIterate

SpecHo == InitHo /\ [][NextHo]_vars

\* the thread that is inside pattern keeps running
SpecHoFair == SpecHo /\ WF_vars(HoIterate)

----------------------------------------------------------------------------
(* Threads logging to one sink: file_sink, rotating_file_sink, console_sink *)

\* (faulty variant: log does not take the mutex)
can_lock_always(mutex) == TRUE

\* std::lock_guard<std::mutex> lock(m_mutex) returns once the mutex is free
can_lock(mutex) == mutex = 0

\* the j-th message of thread t, and the severity thread t logs with
MsgId(t, j) == (t - 1) * MsgsPerThread + j
MsgLen(t, j) == 1 + ((t + j) % MaxMsgLen)
ThreadMsg(t, j) == Message(MsgId(t, j), MsgLen(t, j))
ThreadLevel(t) == IF t % 2 = 1 THEN info ELSE none

\* the thresholds a console sink may have been given by flush_on
ConsoleThresholds == {trace, error}

InitConc ==
    /\ kind \in {"file", "rotating", "console"}
    /\ \E max_size \in 0..MaxMaxSize, max_files \in 0..MaxMaxFiles :
          /\ kind # "rotating" => max_size = 0 /\ max_files = 0
          /\ \E level \in ConsoleThresholds :
                /\ kind # "console" => level = trace
                /\ sink = flush_on(Construct(max_size, max_files,
                                             [present |-> FALSE, content |-> <<>>]), level)
    /\ calls = 0
    /\ last = [op |-> "construct", level |-> none, msg |-> <<>>, pre |-> Before(sink), threw |-> FALSE]
    /\ flush_arg = [set |-> FALSE, level |-> none]
    /\ NoThreads
    /\ NoLogger
    /\ NoFormat
    /\ Idle

\* std::lock_guard<std::mutex> lock(m_mutex);
Lock(t) ==
    /\ pc[t] = "idle"
    /\ idx[t] <= MsgsPerThread
    /\ can_lock(m_mutex)
    /\ m_mutex' = t
    /\ pc' = [pc EXCEPT ![t] = IF kind = "rotating" THEN "check"
                               ELSE IF kind = "file" THEN "write" ELSE "color"]
    /\ put' = [put EXCEPT ![t] = 0]
    /\ UNCHANGED <<kind, sink, idx, out, seq_vars, logger_vars>>
    /\ UNCHANGED <<fmtr, late_vars>>

\* if (m_current_size + msg.size() > m_max_size) rotate();
Check(t) ==
    /\ pc[t] = "check"
    /\ sink' = IF needs_rotate(sink.m_current_size, MsgLen(t, idx[t]), sink.m_max_size)
               THEN rotate(sink, "none")
               ELSE sink
    /\ pc' = [pc EXCEPT ![t] = "write"]
    /\ UNCHANGED <<kind, m_mutex, idx, put, out, seq_vars, logger_vars>>
    /\ UNCHANGED <<fmtr, late_vars>>

\* m_file << msg: the bytes go into the stream's buffer one after the other
PutByte(t) ==
    /\ pc[t] = "write"
    /\ put[t] < MsgLen(t, idx[t])
    /\ sink' = write(sink, <<ThreadMsg(t, idx[t])[put[t] + 1]>>)
    /\ put' = [put EXCEPT ![t] = @ + 1]
    /\ pc' = [pc EXCEPT ![t] = IF put[t] + 1 < MsgLen(t, idx[t]) THEN "write"
                               ELSE IF kind = "rotating" THEN "size" ELSE "flush"]
    /\ UNCHANGED <<kind, m_mutex, idx, out, seq_vars, logger_vars>>
    /\ UNCHANGED <<fmtr, late_vars>>

\* m_current_size += msg.size();
AddSize(t) ==
    /\ pc[t] = "size"
    /\ sink' = [sink EXCEPT !.m_current_size = (@ + MsgLen(t, idx[t])) % SizeMod]
    /\ pc' = [pc EXCEPT ![t] = "flush"]
    /\ UNCHANGED <<kind, m_mutex, idx, put, out, seq_vars, logger_vars>>
    /\ UNCHANGED <<fmtr, late_vars>>

\* if (should_flush(level)) m_file.flush();
MaybeFlush(t) ==
    /\ pc[t] = "flush"
    /\ sink' = IF should_flush(ThreadLevel(t), sink.m_flush_level) THEN flush(sink) ELSE sink
    /\ pc' = [pc EXCEPT ![t] = "unlock"]
    /\ UNCHANGED <<kind, m_mutex, idx, put, out, seq_vars, logger_vars>>
    /\ UNCHANGED <<fmtr, late_vars>>

\* fwrite(color_code, 1, strlen(color_code), stdout)
WriteColor(t) ==
    /\ pc[t] = "color"
    /\ out' = fwrite(out, get_ansi_color_code(ThreadLevel(t)))
    /\ pc' = [pc EXCEPT ![t] = "msg"]
    /\ UNCHANGED <<kind, sink, m_mutex, idx, put, seq_vars, logger_vars>>
    /\ UNCHANGED <<fmtr, late_vars>>

\* fwrite(msg.c_str(), 1, msg.length(), stdout): one call, and stdio lets no
\* other call on the stream in between
WriteMsg(t) ==
    /\ pc[t] = "msg"
    /\ out' = fwrite(out, ThreadMsg(t, idx[t]))
    /\ pc' = [pc EXCEPT ![t] = "reset"]
    /\ UNCHANGED <<kind, sink, m_mutex, idx, put, seq_vars, logger_vars>>
    /\ UNCHANGED <<fmtr, late_vars>>

\* fwrite(reset_code, 1, 4, stdout)
WriteReset(t) ==
    /\ pc[t] = "reset"
    /\ out' = fwrite(out, reset_code)
    /\ pc' = [pc EXCEPT ![t] = "fflush"]
    /\ UNCHANGED <<kind, sink, m_mutex, idx, put, seq_vars, logger_vars>>
    /\ UNCHANGED <<fmtr, late_vars>>

\* fflush(stdout)
FFlush(t) ==
    /\ pc[t] = "fflush"
    /\ out' = fflush(out)
    /\ pc' = [pc EXCEPT ![t] = "unlock"]
    /\ UNCHANGED <<kind, sink, m_mutex, idx, put, seq_vars, logger_vars>>
    /\ UNCHANGED <<fmtr, late_vars>>

\* the lock_guard's destructor, and the return of log
Unlock(t) ==
    /\ pc[t] = "unlock"
    /\ m_mutex' = 0
    /\ idx' = [idx EXCEPT ![t] = @ + 1]
    /\ pc' = [pc EXCEPT ![t] = "idle"]
    /\ UNCHANGED <<kind, sink, put, out, seq_vars, logger_vars>>
    /\ UNCHANGED <<fmtr, late_vars>>

NextConc ==
    \E t \in Threads :
        \/ Lock(t)
        \/ Check(t)
        \/ PutByte(t)
        \/ AddSize(t)
        \/ MaybeFlush(t)
        \/ WriteColor(t)
        \/ WriteMsg(t)
        \/ WriteReset(t)
        \/ FFlush(t)
        \/ Unlock(t)

SpecConc == InitConc /\ [][NextConc]_vars

----------------------------------------------------------------------------
(* flush_on beside threads that log *)

\* logger::flush_on(level) over the one sink: isink::flush_on assigns
\* m_flush_level and takes no lock, so the call goes ahead whoever holds the
\* mutex; acc records the access and the holder of the mutex at that moment.
\* A log call of another thread that reads m_flush_level (should_flush) sees
\* the old or the new threshold, as the steps fall.
ThreadFlushOn(t) ==
    /\ pc[t] = "idle"
    /\ \E level \in FlushLevels :
          /\ sink' = flush_on(sink, level)
          /\ acc' = [op |-> "flush_on", thread |-> t, level |-> level, holder |-> m_mutex]
    /\ UNCHANGED <<kind, seq_vars, conc_vars, logger_vars>>
    /\ UNCHANGED <<fmtr, rnd, ho, hist, loggers, mtx, thr>>

NextRace ==
    \/ NextConc
    \/ \E t \in Threads : ThreadFlushOn(t)

SpecRace == InitConc /\ [][NextRace]_vars

----------------------------------------------------------------------------
(* Threads inside logger::log, over loggers that share sinks *)

\* the sinks the loggers share
SharedSinks == {1, 2}

\* the sink lists of a logger, in registration order: one sink, two sinks in
\* either order, one sink registered twice
SinkLists ==
    {<<s>> : s \in SharedSinks} \cup {<<s1, s2>> : s1 \in SharedSinks, s2 \in SharedSinks}

\* (faulty variant: the lock is kept when sink->log returns)
lock_guard_kept(mutexes, s) == mutexes

\* the end of the scope of std::lock_guard<std::mutex> lock(m_mutex)
lock_guard_release(mutexes, s) == [mutexes EXCEPT ![s] = 0]

\* two loggers; the odd threads log through the first, the even threads
\* through the second
InitDispatch ==
    /\ kind = "console"
    /\ sink = Construct(0, 0, [present |-> FALSE, content |-> <<>>])
    /\ calls = 0
    /\ last = [op |-> "construct", level |-> none, msg |-> <<>>, pre |-> Before(sink), threw |-> FALSE]
    /\ flush_arg = [set |-> FALSE, level |-> none]
    /\ NoThreads
    /\ NoLogger
    /\ NoFormat
    /\ rnd = [called |-> FALSE]
    /\ ho = [pc |-> "idle"]
    /\ hist = <<>>
    /\ \E first \in SinkLists, second \in SinkLists :
          loggers = [t \in Threads |-> IF t % 2 = 1 THEN first ELSE second]
    /\ mtx = [s \in SharedSinks |-> 0]
    /\ thr = [t \in Threads |-> [pc |-> "idle", pos |-> 1, returned |-> 0]]
    /\ acc = [op |-> "none"]

dispatch_unchanged ==
    /\ UNCHANGED <<kind, sink, seq_vars, conc_vars, logger_vars>>
    /\ UNCHANGED <<fmtr, rnd, ho, hist, loggers, acc>>

\* logger::log is called: the message is formatted and rendered, and the
\* loop over m_sinks begins
StartLog(t) ==
    /\ thr[t].pc = "idle"
    /\ thr[t].returned < MsgsPerThread
    /\ thr' = [thr EXCEPT ![t].pc = "call", ![t].pos = 1]
    /\ UNCHANGED mtx
    /\ dispatch_unchanged

\* sink->log(final_log_message, level): the lock_guard takes the sink's mutex
AcquireLock(t) ==
    /\ thr[t].pc = "call"
    /\ can_lock(mtx[loggers[t][thr[t].pos]])
    /\ mtx' = [mtx EXCEPT ![loggers[t][thr[t].pos]] = t]
    /\ thr' = [thr EXCEPT ![t].pc = "locked"]
    /\ dispatch_unchanged

\* sink->log writes and returns, which ends the lock_guard; the loop goes on
\* to the next sink, and logger::log returns after the last
ReleaseLock(t) ==
    /\ thr[t].pc = "locked"
    /\ mtx' = lock_guard_release(mtx, loggers[t][thr[t].pos])
    /\ thr' = IF thr[t].pos < Len(loggers[t])
              THEN [thr EXCEPT ![t].pc = "call", ![t].pos = @ + 1]
              ELSE [thr EXCEPT ![t].pc = "idle", ![t].pos = 1, ![t].returned = @ + 1]
    /\ dispatch_unchanged

NextDispatch ==
    \E t \in Threads :
        \/ StartLog(t)
        \/ AcquireLock(t)
        \/ ReleaseLock(t)

SpecDispatch == InitDispatch /\ [][NextDispatch]_vars

\* every thread that can take a step is scheduled in the end; nothing makes
\* the application call log
SpecDispatchFair ==
    /\ SpecDispatch
    /\ \A t \in Threads : WF_vars(AcquireLock(t)) /\ WF_vars(ReleaseLock(t))

----------------------------------------------------------------------------
(* The rotating sink: threshold, retention, the shift of the backups *)

Active(s) == Files(s)[m_base_filename]

\* the numbers i for which backup i is on disk
BackupNumbers(files) == {i \in 0..(SizeMod - 1) : backup_path(i) \in DOMAIN files}

RotatingLogDone == kind = "rotating" /\ last.op = "log"

\* C1: a log call on a rotating sink rotates before writing iff
\* current_size + len(message) > max_size (a sum equal to max_size does not
\* rotate); either way the message is then appended to the active file and
\* current_size grows by len(message) (from 0 after a rotation).
C1_RotateIffExceeds ==
    RotatingLogDone =>
        LET n == Len(last.msg)
            rotated == sink.n_rotate > 0
        IN /\ rotated <=> (last.pre.m_current_size + n > sink.m_max_size)
           /\ Active(sink) = (IF rotated THEN <<>> ELSE last.pre.files[m_base_filename]) \o last.msg
           /\ sink.m_current_size = (IF rotated THEN 0 ELSE last.pre.m_current_size) + n

\* a non-empty message filled the file exactly to max_size, and no rotation happened
C1_Witness ==
    /\ RotatingLogDone
    /\ Len(last.msg) > 0
    /\ last.pre.m_current_size > 0
    /\ last.pre.m_current_size + Len(last.msg) = sink.m_max_size
    /\ sink.n_rotate = 0

\* C2: with max_backup_count = n, for every n >= 0, and no backups at the
\* start, at most n backup files exist after any sequence of log calls and
\* none is numbered above n.
C2_RetentionLimit ==
    kind = "rotating" =>
        /\ Cardinality(BackupNumbers(Files(sink))) <= sink.m_max_files
        /\ \A i \in BackupNumbers(Files(sink)) : i <= sink.m_max_files

\* the retention limit for n >= 1, where the loop counter does not wrap
C2_RetentionLimitFrom1 ==
    (kind = "rotating" /\ sink.m_max_files >= 1) =>
        BackupNumbers(Files(sink)) \subseteq 1..sink.m_max_files

\* C3: one rotation with max_backup_count = n >= 1: backup n's old content is
\* discarded, backup i's old content becomes backup i+1 for every existing
\* 1 <= i < n, the old active content becomes backup 1, the active file is
\* emptied and current_size reset to 0 (so that after the write they hold
\* the message alone); nothing else is on disk.
C3_RotationMapsFiles ==
    (RotatingLogDone /\ sink.n_rotate > 0 /\ sink.m_max_files >= 1) =>
        LET old == last.pre.files
            new == Files(sink)
            n == sink.m_max_files
            shifted == {i \in 1..(n - 1) : backup_path(i) \in DOMAIN old}
        IN /\ BackupNumbers(new) = {1} \cup {i + 1 : i \in shifted}
           /\ \A i \in shifted : new[backup_path(i + 1)] = old[backup_path(i)]
           /\ new[backup_path(1)] = old[m_base_filename]
           /\ new[m_base_filename] = last.msg
           /\ sink.m_current_size = Len(last.msg)

\* a rotation with n = 2 found backups 1 and 2 with different non-empty contents
C3_Witness ==
    /\ RotatingLogDone /\ sink.n_rotate > 0 /\ sink.m_max_files = 2
    /\ {1, 2} \subseteq BackupNumbers(last.pre.files)
    /\ last.pre.files[backup_path(1)] # <<>>
    /\ last.pre.files[backup_path(2)] # <<>>
    /\ last.pre.files[m_base_filename] # <<>>

\* C4: a log call rotates at most once; a message longer than max_size is
\* written whole into the emptied file without a second check, so after a
\* log call either current_size <= max_size or the active file holds that
\* one oversized message and current_size is its length.
C4_OneRotationPerCall ==
    RotatingLogDone =>
        /\ sink.n_rotate <= 1
        /\ \/ sink.m_current_size <= sink.m_max_size
           \/ /\ sink.n_rotate = 1
              /\ Len(last.msg) > sink.m_max_size
              /\ sink.m_current_size = Len(last.msg)
              /\ Active(sink) = last.msg

\* an oversized message was written after one rotation
C4_Witness ==
    /\ RotatingLogDone
    /\ sink.n_rotate = 1
    /\ sink.m_max_size > 0
    /\ sink.m_current_size > sink.m_max_size

----------------------------------------------------------------------------
(* The flush threshold of file_sink and rotating_file_sink *)

LogDone == last.op = "log"

\* the log call flushed the file: flush was called, and the message is on disk
Flushed(s) == s.n_flush > 0 /\ s.m_file_buf = <<>>

\* C9: on a file sink and on a rotating file sink, after flush_on(s) a log
\* call with severity s2 is followed by a flush of the file iff s2 >= s, in
\* the order none < trace < info < debug < warning < error < critical.
C9_FlushIffAtLeastThreshold ==
    (LogDone /\ flush_arg.set) =>
        /\ Flushed(sink) <=> last.level >= flush_arg.level
        /\ ~Flushed(sink) => sink.n_flush = 0

\* a message logged exactly at the threshold set by flush_on was flushed
C9_Witness ==
    /\ LogDone /\ flush_arg.set
    /\ flush_arg.level = warning /\ last.level = warning
    /\ last.msg # <<>>
    /\ Flushed(sink)

\* C10 as stated: with the default threshold every log call is followed by
\* a flush, whatever its severity.
C10_DefaultFlushesEveryWrite ==
    (LogDone /\ ~flush_arg.set /\ last.msg # <<>>) => Flushed(sink)

\* C10 amended: with the default threshold (trace) a log call is followed
\* by a flush iff its severity is not none.
C10_DefaultFlushesFromTrace ==
    (LogDone /\ ~flush_arg.set) => (Flushed(sink) <=> last.level # none)

\* a trace message logged under the default threshold was flushed
C10_Witness ==
    /\ LogDone /\ ~flush_arg.set
    /\ last.level = trace
    /\ last.msg # <<>>
    /\ Flushed(sink)

----------------------------------------------------------------------------
(* Failures during a rotation *)

\* C7: a Logger.log call never aborts the caller's control flow: a failing
\* remove, rename or re-open during a rotation is swallowed and no error
\* propagates out of log.
C7_LogNeverThrows ==
    LogDone => ~last.threw

----------------------------------------------------------------------------
(* Concurrent log calls on one sink *)

AllDone == \A t \in Threads : idx[t] > MsgsPerThread

\* what the output medium holds
Output == IF kind = "console" THEN out.term \o out.buf ELSE Active(sink)

\* what one log call puts on the medium
Item(t, j) ==
    IF kind = "console"
    THEN get_ansi_color_code(ThreadLevel(t)) \o ThreadMsg(t, j) \o reset_code
    ELSE ThreadMsg(t, j)

IsPrefix(p, s) == Len(p) <= Len(s) /\ SubSeq(s, 1, Len(p)) = p

\* stream is the items of the calls from next[t] on, whole, each thread's in
\* the order of its calls
RECURSIVE IsInterleaving(_, _)
IsInterleaving(stream, next) ==
    IF \A t \in Threads : next[t] > MsgsPerThread THEN stream = <<>>
    ELSE \E t \in Threads :
            /\ next[t] <= MsgsPerThread
            /\ IsPrefix(Item(t, next[t]), stream)
            /\ IsInterleaving(SubSeq(stream, Len(Item(t, next[t])) + 1, Len(stream)),
                              [next EXCEPT ![t] = @ + 1])

\* C5: log calls on one sink are serialized by its lock: when N threads have
\* each logged M distinct messages, the medium holds exactly the N*M message
\* bodies, each whole with no byte of another message inside it, in an order
\* that is an interleaving of the threads' calls.
C5_NoTornWrites ==
    (kind \in {"file", "console"} /\ AllDone) =>
        IsInterleaving(Output, [t \in Threads |-> 1])

\* all threads are done and the medium starts with a message of thread 2
\* followed by one of thread 1
C5_Witness ==
    /\ kind \in {"file", "console"}
    /\ AllDone
    /\ IsPrefix(Item(2, 1) \o Item(1, 1), Output)

\* what C6 compares: the files, the size counter and the number of rotations
Observed(s) ==
    [files |-> Files(s), m_current_size |-> s.m_current_size, n_rotate |-> s.n_rotate]

\* the results of the sequential executions of the calls from next[t] on
RECURSIVE SequentialResults(_, _)
SequentialResults(s, next) ==
    IF \A t \in Threads : next[t] > MsgsPerThread THEN {Observed(s)}
    ELSE UNION {SequentialResults(
                    rotating_log(s, ThreadMsg(t, next[t]), ThreadLevel(t), "none"),
                    [next EXCEPT ![t] = @ + 1])
                : t \in {u \in Threads : next[u] <= MsgsPerThread}}

\* C6: on a rotating sink the size check, rotation, write and size update of
\* a log call are one atomic unit: whatever the interleaving, the files,
\* current_size and the number of rotations are those of some sequential
\* execution of the same calls.
C6_RotatingLogAtomic ==
    (kind = "rotating" /\ AllDone) =>
        Observed(sink) \in
            SequentialResults(
                Construct(sink.m_max_size, sink.m_max_files, [present |-> FALSE, content |-> <<>>]),
                [t \in Threads |-> 1])

\* all threads are done on a rotating sink that rotated and whose first
\* backup holds a message of thread 2
C6_Witness ==
    /\ kind = "rotating"
    /\ AllDone
    /\ sink.n_rotate >= 2
    /\ sink.m_max_files >= 1
    /\ \E j \in 1..MsgsPerThread : IsPrefix(ThreadMsg(2, j), Files(sink)[backup_path(1)])

----------------------------------------------------------------------------
(* The logger's dispatch *)

\* what the calls of `list` put on the terminal of sink id, one after the other
RECURSIVE TerminalOf(_, _, _, _)
TerminalOf(list, id, line, level) ==
    IF list = <<>> THEN <<>>
    ELSE (IF Head(list) = id THEN get_ansi_color_code(level) \o line \o reset_code ELSE <<>>)
         \o TerminalOf(Tail(list), id, line, level)

\* C8: a Logger.log call renders the line once and calls sink.log once per
\* entry of the sink list, in registration order, each time with that line
\* and the call's severity; a sink added twice is called twice, and no
\* severity, none included, suppresses the dispatch.
C8_DispatchOncePerEntryInOrder ==
    last_log.op = "log" =>
        LET line == pattern(log_pattern, log_name, last_log.level,
                            format0(last_log.message), last_log.tm)
        IN /\ last_log.invoked =
                [i \in 1..Len(added) |->
                    [sink |-> added[i], line |-> line, level |-> last_log.level]]
           /\ out.term = TerminalOf(added, 1, line, last_log.level)
           /\ err_out.term = TerminalOf(added, 2, line, last_log.level)

\* a message of severity none was logged by a logger that holds its console
\* sink twice
C8_Witness ==
    /\ last_log.op = "log"
    /\ last_log.level = none
    /\ added = <<1, 1>>
    /\ Len(last_log.invoked) = 2

----------------------------------------------------------------------------
(* The logger's threshold, name and pattern *)

Attached(id) == \E i \in 1..Len(m_sinks) : m_sinks[i] = id

\* C11: Logger.flush_on(level) sets the threshold of every sink attached at
\* the time of the call and of no other sink; no other logger operation
\* changes a threshold, so a sink added afterwards keeps its own (trace for a
\* fresh sink) until the next flush_on.
C11_FlushOnReachesAttachedOnly ==
    [][/\ last_log'.op = "flush_on" =>
            \A id \in SinkIds :
                objs'[id].m_flush_level =
                    IF Attached(id) THEN last_log'.level ELSE objs[id].m_flush_level
       /\ last_log'.op # "flush_on" =>
            \A id \in SinkIds : objs'[id].m_flush_level = objs[id].m_flush_level]_vars

\* the error console was added after flush_on(error) and still has the
\* default threshold, while the console sink has the new one
C11_Witness ==
    /\ last_log.op = "add_sink"
    /\ added = <<1, 2>>
    /\ objs[1].m_flush_level = error
    /\ objs[2].m_flush_level = trace

\* C14: after any sequence of logger operations get_pattern() is the argument
\* of the most recent set_pattern, or the constructor's pattern if there was
\* none, and get_name() likewise; set_pattern changes neither the name nor
\* the sink list.
C14_AccessorsReturnLastSet ==
    /\ last_log.op = "construct" => get_pattern = DefaultPattern /\ get_name \in Names
    /\ [][/\ last_log'.op = "set_pattern" =>
                get_pattern' = last_log'.arg /\ get_name' = get_name /\ m_sinks' = m_sinks
          /\ last_log'.op = "set_name" => get_name' = last_log'.arg
          /\ last_log'.op # "set_pattern" => get_pattern' = get_pattern
          /\ last_log'.op # "set_name" => get_name' = get_name]_vars

\* a pattern that ends in an unfinished token was set, and a sink was added
\* and a message logged since
C14_Witness ==
    /\ last_log.op = "log"
    /\ get_pattern = <<"%", "Q", " ", "%", "T", "%">>
    /\ added = <<1, 2>>

----------------------------------------------------------------------------
(* The console sinks *)

\* what a thread inside console_sink::log has put into stdout so far
Emitted(t) ==
    CASE pc[t] = "color" -> <<>>
      [] pc[t] = "msg" -> get_ansi_color_code(ThreadLevel(t))
      [] pc[t] = "reset" -> get_ansi_color_code(ThreadLevel(t)) \o ThreadMsg(t, idx[t])
      [] pc[t] = "fflush" -> Item(t, idx[t])
      [] OTHER -> <<>>

IsSuffix(p, s) == Len(p) <= Len(s) /\ SubSeq(s, Len(s) - Len(p) + 1, Len(s)) = p

\* C12: a console log call emits the severity's style, the message and the
\* reset, in that order and while it holds the sink's lock, and then flushes
\* the stream, whatever the sink's flush threshold and the severity.
C12_ConsoleWritesStyleMessageResetThenFlushes ==
    kind = "console" =>
        \A t \in Threads :
            /\ pc[t] # "idle" => m_mutex = t
            /\ pc[t] \in {"color", "msg", "reset", "fflush"} => out.buf = Emitted(t)
            /\ pc[t] = "unlock" => out.buf = <<>> /\ IsSuffix(Item(t, idx[t]), out.term)

\* a message of severity none has reached the terminal from a console sink
\* whose threshold is error
C12_Witness ==
    /\ kind = "console"
    /\ sink.m_flush_level = error
    /\ ThreadLevel(2) = none
    /\ pc[2] = "unlock"
    /\ IsSuffix(Item(2, 1), out.term)
    /\ Len(out.term) > Len(Item(2, 1))

----------------------------------------------------------------------------
(* A rotating sink constructed over an existing file *)

\* C13: a rotating sink constructed over an existing file of length L starts
\* with current_size = L; its first log call, of a message of length m,
\* rotates iff L + m > max_size; the existing content is kept: the message
\* is appended to it, or it ends up in backup 1 when that rotation happens.
C13_SizePersistsAcrossRestart ==
    kind = "rotating" =>
        /\ calls = 0 => sink.m_current_size = Len(Active(sink))
        /\ (calls = 1 /\ last.op = "log") =>
              LET existing == last.pre.files[m_base_filename]
                  rotated == sink.n_rotate > 0
              IN /\ rotated <=> (Len(existing) + Len(last.msg) > sink.m_max_size)
                 /\ ~rotated => Active(sink) = existing \o last.msg
                 /\ rotated => /\ Files(sink)[backup_path(1)] = existing
                               /\ Active(sink) = last.msg

\* the first log call found content from before the construction, which
\* together with the message exceeded max_size and is now backup 1
C13_Witness ==
    /\ kind = "rotating"
    /\ calls = 1 /\ last.op = "log"
    /\ sink.n_rotate > 0
    /\ Len(last.msg) <= sink.m_max_size
    /\ Files(sink)[backup_path(1)] = Message(0, MaxInitLen)
    /\ MaxInitLen > 0

----------------------------------------------------------------------------
(* The formatter *)

FormatDone == fmtr.called /\ fmtr.args # <<>>

\* the placeholders among the pieces of the call, by position
PlaceholderAt(j) == fmtr.pieces[j].what = "placeholder"

\* the body starts with digits that are followed by its end or by ':'
HasExplicitIndex(content) ==
    \E k \in 1..Len(content) :
        /\ \A i \in 1..k : isdigit(content[i])
        /\ k = Len(content) \/ content[k + 1] = ":"

\* the number those digits write
ExplicitValue(content) ==
    DecValue(SubSeq(content, 1,
                    CHOOSE k \in 1..Len(content) :
                        /\ \A i \in 1..k : isdigit(content[i])
                        /\ k = Len(content) \/ content[k + 1] = ":"))

\* how many placeholders without an explicit index come before piece j
AutoBefore(j) ==
    Cardinality({i \in 1..(j - 1) :
                    PlaceholderAt(i) /\ ~HasExplicitIndex(fmtr.pieces[i].content)})

\* the index the placeholder at piece j stands for
ResolvedIndex(j) ==
    IF HasExplicitIndex(fmtr.pieces[j].content)
    THEN ExplicitValue(fmtr.pieces[j].content)
    ELSE AutoBefore(j)

\* argument k (counted from 0) rendered on its own under a specifier
Rendered(k, spec) == format_helper(NewStream, fmtr.args[k + 1], spec).str

\* C15: a placeholder with an explicit index k renders argument k; one
\* without renders argument c, c being a counter that starts at 0 and that
\* only placeholders without an explicit index advance ("{} and {}" with
\* (a, b) gives "a and b", "{1} {0}" gives "b a", "{1} {}" gives "b a").
\* Explicit indexes are those a size_t holds.
C15_IndexResolution ==
    FormatDone =>
        /\ \A j \in DOMAIN fmtr.pieces :
              (PlaceholderAt(j) /\ ResolvedIndex(j) < SizeMod) =>
                  /\ fmtr.pieces[j].index = ResolvedIndex(j)
                  /\ ResolvedIndex(j) < Len(fmtr.args) =>
                        fmtr.pieces[j].text = Rendered(ResolvedIndex(j), fmtr.pieces[j].spec)
        /\ fmtr.args = <<StrArg(<<"a">>), StrArg(<<"b">>)>> =>
              /\ fmtr.fmt = <<"{", "}", " ", "a", "n", "d", " ", "{", "}">> => fmtr.result = <<"a", " ", "a", "n", "d", " ", "b">>
              /\ fmtr.fmt = <<"{", "1", "}", " ", "{", "0", "}">> => fmtr.result = <<"b", " ", "a">>
              /\ fmtr.fmt = <<"{", "1", "}", " ", "{", "}">> => fmtr.result = <<"b", " ", "a">>

\* "{1} {}" was formatted with (a, b) and gave "b a"
C15_Witness ==
    /\ FormatDone
    /\ fmtr.fmt = <<"{", "1", "}", " ", "{", "}">>
    /\ fmtr.args = <<StrArg(<<"a">>), StrArg(<<"b">>)>>
    /\ fmtr.result = <<"b", " ", "a">>

\* C16: a placeholder whose resolved index, automatic or written with a
\* digit string of any length, is not less than the number of arguments
\* contributes no characters to the output.
C16_OutOfRangeContributesNothing ==
    FormatDone =>
        \A j \in DOMAIN fmtr.pieces :
            (PlaceholderAt(j) /\ ResolvedIndex(j) >= Len(fmtr.args)) =>
                fmtr.pieces[j].text = <<>>

\* the same for the indexes a size_t holds, where it is true
C16_OutOfRangeWithinSizeT ==
    FormatDone =>
        \A j \in DOMAIN fmtr.pieces :
            (PlaceholderAt(j) /\ ResolvedIndex(j) >= Len(fmtr.args)
                              /\ ResolvedIndex(j) < SizeMod) =>
                fmtr.pieces[j].text = <<>>

\* every brace of the template is half of a `{{` or a `}}`
RECURSIVE OnlyDoubledBraces(_)
OnlyDoubledBraces(fmt) ==
    \/ fmt = <<>>
    \/ /\ fmt # <<>> /\ fmt[1] \notin {"{", "}"}
       /\ OnlyDoubledBraces(Tail(fmt))
    \/ /\ Len(fmt) >= 2 /\ fmt[1] \in {"{", "}"} /\ fmt[2] = fmt[1]
       /\ OnlyDoubledBraces(SubSeq(fmt, 3, Len(fmt)))

\* such a template with one brace for every pair
RECURSIVE Unescaped(_)
Unescaped(fmt) ==
    IF fmt = <<>> THEN <<>>
    ELSE IF fmt[1] \in {"{", "}"} THEN <<fmt[1]>> \o Unescaped(SubSeq(fmt, 3, Len(fmt)))
    ELSE <<fmt[1]>> \o Unescaped(Tail(fmt))

C18_NoArgumentsVerbatim ==
    (fmtr.called /\ fmtr.args = <<>>) => fmtr.result = fmtr.fmt

\* a template with placeholders was formatted without arguments
C18_Witness ==
    /\ fmtr.called
    /\ fmtr.args = <<>>
    /\ fmtr.fmt = <<"{", "1", "}", " ", "{", "0", "}">>
    /\ fmtr.result = <<"{", "1", "}", " ", "{", "0", "}">>

HasColon(content) == \E i \in 1..Len(content) : content[i] = ":"

\* what follows the first ':' of a placeholder body
AfterFirstColon(content) ==
    SubSeq(content, 1 + CHOOSE i \in 1..Len(content) :
                            content[i] = ":" /\ \A h \in 1..(i - 1) : content[h] # ":",
           Len(content))

\* C19: for every placeholder whose body contains a ':', the text after the
\* first ':' is its format specifier and is applied to its value, whatever
\* the body starts with.
C19_SpecifierAfterFirstColon ==
    FormatDone =>
        \A j \in DOMAIN fmtr.pieces :
            (PlaceholderAt(j) /\ HasColon(fmtr.pieces[j].content)) =>
                /\ fmtr.pieces[j].spec = AfterFirstColon(fmtr.pieces[j].content)
                /\ fmtr.pieces[j].index < Len(fmtr.args) =>
                      fmtr.pieces[j].text =
                          Rendered(fmtr.pieces[j].index, AfterFirstColon(fmtr.pieces[j].content))

\* the same for the bodies in which the first ':' comes first or right after
\* the digits of an explicit index, where it is true
C19_SpecifierAfterIndexColon ==
    FormatDone =>
        \A j \in DOMAIN fmtr.pieces :
            (PlaceholderAt(j) /\ HasColon(fmtr.pieces[j].content)
                /\ (fmtr.pieces[j].content[1] = ":" \/ HasExplicitIndex(fmtr.pieces[j].content))) =>
                fmtr.pieces[j].spec = AfterFirstColon(fmtr.pieces[j].content)

\* C20: the formatting state a placeholder's specifier sets is in effect
\* only while that value is rendered: every later placeholder and every
\* literal character meets the state of a fresh stream and is rendered as
\* if no earlier specifier had existed.
C20_SpecifierStateDoesNotLeak ==
    FormatDone =>
        /\ fmtr.flags = DefaultFlags
        /\ \A j \in DOMAIN fmtr.pieces :
              /\ fmtr.pieces[j].flags = DefaultFlags
              /\ ~PlaceholderAt(j) => fmtr.pieces[j].text = fmtr.pieces[j].content
              /\ (PlaceholderAt(j) /\ fmtr.pieces[j].index < Len(fmtr.args)) =>
                    fmtr.pieces[j].text = Rendered(fmtr.pieces[j].index, fmtr.pieces[j].spec)

\* 255 was rendered in hexadecimal and the next 255 in decimal
C20_Witness ==
    /\ FormatDone
    /\ fmtr.fmt = <<"{", ":", "x", "}", "{", "}">>
    /\ fmtr.args = <<IntArg(255), IntArg(255), IntArg(8)>>
    /\ fmtr.result = <<"f", "f", "2", "5", "5">>

----------------------------------------------------------------------------
(* The pattern renderer of dtlog.h *)

\* the lowercase names of the severities, none first
SeverityNames ==
    <<<<"n", "o", "n", "e">>, <<"t", "r", "a", "c", "e">>, <<"i", "n", "f", "o">>, <<"d", "e", "b", "u", "g">>, <<"w", "a", "r", "n", "i", "n", "g">>, <<"e", "r", "r", "o", "r">>, <<"c", "r", "i", "t", "i", "c", "a", "l">>>>

TimeTokens == {"A", "B", "C", "Y", "R", "D", "m", "d", "H", "h", "M", "S", "F", "x", "X", "T"}

\* the table of the recognized tokens, for the call in rnd
TableValue(c) ==
    CASE c = "V" -> rnd.in.message
      [] c = "N" -> rnd.in.name
      [] c = "L" -> SeverityNames[rnd.in.level + 1]
      [] c = "%" -> <<"%">>
      [] c = "n" -> <<"\n">>
      [] c \in TimeTokens -> pattern_token(c, rnd.in.level, <<>>, <<>>, rnd.in.tm)

\* the left-to-right concatenation C21 describes
RECURSIVE Concatenation(_)
Concatenation(pat) ==
    IF pat = <<>> THEN <<>>
    ELSE IF pat[1] # "%" THEN <<pat[1]>> \o Concatenation(Tail(pat))
    ELSE IF Len(pat) = 1 THEN <<"%">>
    ELSE IF pat[2] \in {"V", "N", "L", "%", "n"} \cup TimeTokens
         THEN TableValue(pat[2]) \o Concatenation(SubSeq(pat, 3, Len(pat)))
    ELSE <<"%", pat[2]>> \o Concatenation(SubSeq(pat, 3, Len(pat)))

\* C21: the pattern renderer of dtlog.h ends on every pattern, and its output
\* is the left-to-right concatenation of each non-% character, the table
\* value of each recognized %+letter pair (%V message, %N name, %L lowercase
\* severity name, %% one %, %n a newline), the two characters of each
\* unrecognized pair, and % for a % that is the last character.
C21_PatternIsConcatenation ==
    rnd.called => rnd.result = Concatenation(rnd.in.pat)

\* a pattern with an unknown token, a time token and a last % was rendered
C21_Witness ==
    /\ rnd.called
    /\ rnd.in.pat = <<"%", "Q", " ", "%", "T", "%">>
    /\ rnd.in.tm.tm_hour = 13
    /\ rnd.result = <<"%", "Q", " ", "1", "3", ":", "5", "9", ":", "3", "0", "%">>

TwoDigits(n) == <<Digit(n \div 10), Digit(n % 10)>>
Decimal(n) == IF n < 10 THEN <<Digit(n)>> ELSE TwoDigits(n)

\* the number a single numeric token stands for
FieldValue(c) ==
    CASE c = "H" -> rnd.in.tm.tm_hour
      [] c = "h" -> IF rnd.in.tm.tm_hour % 12 = 0 THEN 12 ELSE rnd.in.tm.tm_hour % 12
      [] c = "M" -> rnd.in.tm.tm_min
      [] c = "S" -> rnd.in.tm.tm_sec
      [] c = "m" -> rnd.in.tm.tm_mon + 1
      [] c = "d" -> rnd.in.tm.tm_mday

IsNumericToken(pat) ==
    Len(pat) = 2 /\ pat[1] = "%" /\ pat[2] \in {"H", "h", "M", "S", "m", "d"}

\* C22 as stated: %H, %h, %M, %S, %m and %d each render exactly two digits,
\* zero-padded ("05" for 5).
C22_NumericTokensTwoDigits ==
    (rnd.called /\ IsNumericToken(rnd.in.pat)) =>
        rnd.result = TwoDigits(FieldValue(rnd.in.pat[2]))

\* What the single numeric tokens do render: %H, %h, %M, %S, %m and %d give
\* the number in decimal without padding ("5" for 5); the fields inside %T,
\* %X and %D are the ones padded to two digits.
C22_NumericTokensUnpadded ==
    rnd.called =>
        /\ IsNumericToken(rnd.in.pat) => rnd.result = Decimal(FieldValue(rnd.in.pat[2]))
        /\ rnd.in.pat = <<"%", "T">> =>
              rnd.result = TwoDigits(rnd.in.tm.tm_hour) \o <<":">> \o TwoDigits(rnd.in.tm.tm_min)
                           \o <<":">> \o TwoDigits(rnd.in.tm.tm_sec)
        /\ rnd.in.pat = <<"%", "X">> =>
              rnd.result = TwoDigits(rnd.in.tm.tm_hour) \o <<":">> \o TwoDigits(rnd.in.tm.tm_min)
        /\ rnd.in.pat = <<"%", "D">> =>
              rnd.result = TwoDigits(rnd.in.tm.tm_mon + 1) \o <<"/">> \o TwoDigits(rnd.in.tm.tm_mday)
                           \o <<"/">> \o TwoDigits(rnd.in.tm.tm_year % 100)

\* minute 7 was rendered by %M as "7"
C22_UnpaddedMinute ==
    /\ rnd.called
    /\ rnd.in.pat = <<"%", "M">>
    /\ rnd.in.tm.tm_min = 7
    /\ rnd.result = <<"7">>

\* text in which every occurrence of a mark is replaced by a string
RECURSIVE Substituted(_, _, _, _, _)
Substituted(text, mark1, s1, mark2, s2) ==
    IF text = <<>> THEN <<>>
    ELSE (IF text[1] = mark1 THEN s1 ELSE IF text[1] = mark2 THEN s2 ELSE <<text[1]>>)
         \o Substituted(Tail(text), mark1, s1, mark2, s2)

\* C27: the renderer makes one pass over the pattern and never rescans what
\* it substituted: the output is what the pattern renders to with opaque
\* marks for message and name, with the message and the name put in their
\* place as they are; so message "%N" appears as "%N", and pattern "%%N"
\* gives "%N".
C27_SubstitutedTextNotRescanned ==
    rnd.called =>
        /\ rnd.result =
              Substituted(pattern(rnd.in.pat, <<"<name>">>, rnd.in.level, <<"<message>">>, rnd.in.tm),
                          "<message>", rnd.in.message, "<name>", rnd.in.name)
        /\ rnd.in.pat = <<"%", "V">> => rnd.result = rnd.in.message
        /\ rnd.in.pat = <<"%", "%", "N">> => rnd.result = <<"%", "N">>

\* the message "%N" was rendered by the pattern "%V" and came out as "%N"
C27_Witness ==
    /\ rnd.called
    /\ rnd.in.pat = <<"%", "V">>
    /\ rnd.in.message = <<"%", "N">>
    /\ rnd.result = <<"%", "N">>

----------------------------------------------------------------------------
(* The size counter of the rotating sink *)

\* the bytes of the active file that are on disk, without those still in the
\* stream buffer
OnDisk(s) == s.disk[m_base_filename]

----------------------------------------------------------------------------
(* Rotation and the order of the messages *)

\* the messages of a sequence, one after the other
RECURSIVE Flat(_)
Flat(msgs) == IF msgs = <<>> THEN <<>> ELSE Head(msgs) \o Flat(Tail(msgs))

\* backup n, ..., backup 1 and the active file, one after the other; a
\* backup that does not exist contributes nothing
RECURSIVE BackupsThenActive(_, _)
BackupsThenActive(files, n) ==
    IF n = 0 THEN files[m_base_filename]
    ELSE (IF backup_path(n) \in DOMAIN files THEN files[backup_path(n)] ELSE <<>>)
         \o BackupsThenActive(files, n - 1)

\* the content is a run of whole consecutive messages of the history
WholeMessages(content, msgs) ==
    \E i \in 1..(Len(msgs) + 1) : \E j \in (i - 1)..Len(msgs) :
        content = Flat(SubSeq(msgs, i, j))

\* file number 0 is the active file, file number i the backup i
NumberedFile(files, i) == IF i = 0 THEN files[m_base_filename] ELSE files[backup_path(i)]

\* C24: rotation neither splits nor reorders messages: for a rotating sink
\* with max_backup_count >= 1 started on an empty file set, after any
\* sequence of log calls every file holds whole messages only, every message
\* byte still on disk is in exactly one file, the concatenation of backup n,
\* ..., backup 1 and the active file is a suffix of the sequence of all
\* logged messages, and backup i never holds newer content than backup i-1.
C24_RotationKeepsMessagesWholeAndOrdered ==
    LET files == Files(sink)
        n == sink.m_max_files
    IN /\ BackupNumbers(files) \subseteq 1..n
       /\ IsSuffix(BackupsThenActive(files, n), Flat(hist))
       /\ \A p \in DOMAIN files : WholeMessages(files[p], hist)
       /\ \A i \in BackupNumbers(files) : \A a \in 1..Len(NumberedFile(files, i)) :
             /\ (i - 1) \in BackupNumbers(files) \cup {0}
             /\ \A b \in 1..Len(NumberedFile(files, i - 1)) :
                   NumberedFile(files, i)[a][1] < NumberedFile(files, i - 1)[b][1]
       /\ \A p, q \in DOMAIN files : \A a \in 1..Len(files[p]) : \A b \in 1..Len(files[q]) :
             files[p][a] = files[q][b] => p = q /\ a = b

\* two rotations happened: the oldest message is in backup 2, a later one in
\* backup 1 and the newest in the active file
C24_Witness ==
    /\ kind = "rotating"
    /\ Len(hist) = 3
    /\ sink.m_max_files = 2
    /\ backup_path(2) \in DOMAIN Files(sink)
    /\ Files(sink)[backup_path(2)] = hist[1]
    /\ Files(sink)[backup_path(1)] = hist[2]
    /\ Active(sink) = hist[3]
    /\ Len(hist[1]) = 2

----------------------------------------------------------------------------
(* Threads logging through loggers that share sinks *)

\* the sink locks thread t holds
LocksHeld(t) == {s \in SharedSinks : mtx[s] = t}

InsideLog(t) == thr[t].pc # "idle"

\* C25: a thread inside logger::log holds at most one sink lock at a time
\* and has released it when it calls the next sink, so whatever sinks the
\* loggers share and in whatever registration order (one sink registered
\* twice included), every log call returns in the end under fair scheduling.
C25_EveryLogCallReturns ==
    /\ [](\A t \in Threads :
            /\ Cardinality(LocksHeld(t)) <= 1
            /\ thr[t].pc # "locked" => LocksHeld(t) = {})
    /\ \A t \in Threads : InsideLog(t) ~> ~InsideLog(t)

\* two loggers hold the same sinks in opposite orders: thread 1 has written
\* to sink 1 and waits for sink 2, which thread 2 holds
C25_Witness ==
    /\ loggers # <<>>
    /\ loggers[1] = <<1, 2>>
    /\ loggers[2] = <<2, 1>>
    /\ thr[1].pc = "call"
    /\ thr[1].pos = 2
    /\ mtx[2] = 2

----------------------------------------------------------------------------
(* Accesses to the state of a sink *)

\* thread t is at a statement of log that reads or writes m_flush_level,
\* m_current_size or the file
AccessesSink(t) == pc[t] \in {"check", "write", "size", "flush"}

\* what does hold: every access made by log is under the lock
C26_LogAccessesUnderLock ==
    \A t \in Threads : AccessesSink(t) => m_mutex = t

\* C26: every read and write of a sink's mutable state (flush_level,
\* current_size_bytes, the file handle) happens while the accessing thread
\* holds that sink's lock, the threshold update of flush_on included.
C26_EveryAccessUnderLock ==
    /\ \A t \in Threads : AccessesSink(t) => m_mutex = t
    /\ acc.op = "flush_on" => acc.holder = acc.thread

\* flush_on wrote the threshold while another thread, holding the lock, was
\* about to read it in should_flush
C26_FlushOnBesideShouldFlush ==
    /\ acc.op = "flush_on"
    /\ acc.holder # 0
    /\ acc.holder # acc.thread
    /\ pc[acc.holder] = "flush"

----------------------------------------------------------------------------
(* The pattern expansion of dtlog_ho.h *)

\* C28: the pattern expansion of dtlog_ho.h ends for every pattern and
\* message, and a pattern with an unrecognized token such as "%Q" renders
\* with that token as literal "%Q".
C28_HoPatternTerminates ==
    /\ (ho.pc = "loop") ~> (ho.pc = "done")
    /\ []((ho.pc = "done" /\ ho.in.pat = <<"%", "Q">>) => ho.formatted_message = <<"%", "Q">>)

\* what does hold: a call that ended on a pattern without '%' returns the
\* pattern
C28_PlainPatternUnchanged ==
    (ho.pc = "done" /\ find(ho.in.pat, "%", 1) = 0) => ho.formatted_message = ho.in.pat

\* the loop has taken a turn on pattern "%Q" and the next turn changes
\* nothing either: the loop goes on, pos stays on the '%' and the text is
\* the same
C28_StuckOnUnknownToken ==
    /\ ho.pc = "loop"
    /\ ho.turn = 1
    /\ ho.in.pat = <<"%", "Q">>
    /\ ho.formatted_message = <<"%", "Q">>
    /\ ho_iteration(ho).pc = "loop"
    /\ ho_iteration(ho).pos = ho.pos
    /\ ho_iteration(ho).formatted_message = ho.formatted_message

====
